------------------------------- MODULE Copilot -------------------------------
(***************************************************************************)
(* The Copilot: the stored configuration (copilot/settings.py), the        *)
(* settings dialog, the chat page and the Copilot section of the settings  *)
(* page on the GUI thread, and CopilotWorker, which asks the provider.  The *)
(* worker object lives on a thread of its own, but the window calls its    *)
(* slots directly, so a call to the provider runs on the GUI thread and    *)
(* nothing else happens there until it ends.                               *)
(***************************************************************************)
EXTENDS CopilotContext

CONSTANTS
    Key,             \* API keys
    NoKey,           \* the empty string: no key, an empty field
    EnvKey,          \* ANDROID_TASK_MANAGER_GEMINI_API_KEY: a key, or NoKey
    Closed,          \* no settings dialog
    Idle,            \* no call to the provider
    MaxMessages      \* bound: messages of a conversation

MaybeKey == Key \cup {NoKey}
Dialog == [key : MaybeKey, field : MaybeKey, cleared : BOOLEAN]
Call == [kind : {"chat", "test"}, key : Key]

ASSUME CopilotAssumption ==
    NoKey \notin Key /\ EnvKey \in MaybeKey /\ Idle \notin Call /\ MaxMessages \in Nat

VARIABLES
    stored,          \* the api_key of the configuration file
    dialog,          \* the settings dialog: the key of its configuration, its field,
                     \* and whether Clear Key has been pressed in it
    worker,          \* the api_key of CopilotWorker._config
    chatSays,        \* CopilotPage._configured
    settingsSay,     \* what set_copilot_state showed last
    testable,        \* the test button of the settings page
    call,            \* the call the GUI thread is in: its kind and its key
    loading,         \* the page waits for an answer: its input is disabled
    conversation,    \* CopilotPage._messages: the role of each
    wiped            \* auxiliary: the last Save, of an empty field and with Clear Key
                     \* not pressed, took the key away

panes == <<chatSays, settingsSay, testable>>
copilotVars == <<stored, dialog, worker, panes, call, loading, conversation, wiped>>

\* What the provider makes of a request (providers.py).
Outcome == {"ok", "denied", "forbidden", "not_found", "rate_limited", "server_error",
            "timeout", "refused", "malformed", "unexpected"}

\* load_config: the environment stands in for a missing key.
LoadedFrom(key) == IF key = NoKey THEN EnvKey ELSE key
LoadConfig == LoadedFrom(stored)

IsConfigured(key) == key # NoKey

CopilotInit ==
    /\ stored \in MaybeKey
    /\ dialog = Closed
    /\ worker = LoadConfig
    /\ chatSays = IsConfigured(LoadConfig)
    /\ settingsSay = chatSays /\ testable = chatSays
    /\ call = Idle
    /\ loading = FALSE
    /\ conversation = <<>>
    /\ wiped = FALSE

-----------------------------------------------------------------------------
(* The settings dialog, which is modal. *)

\* _open_copilot_settings
OpenSettings ==
    /\ call = Idle /\ dialog = Closed
    /\ dialog' = [key |-> LoadConfig, field |-> LoadConfig, cleared |-> FALSE]
    /\ UNCHANGED <<stored, worker, panes, call, loading, conversation, wiped>>

TypeKey(key) ==
    /\ call = Idle /\ dialog # Closed
    /\ dialog' = [dialog EXCEPT !.field = key]
    /\ UNCHANGED <<stored, worker, panes, call, loading, conversation, wiped>>

\* Mutant: only the chat page hears of the new configuration.
ShowConfigurationOnChat(key) ==
    /\ chatSays' = IsConfigured(key)
    /\ UNCHANGED <<settingsSay, testable>>

\* _on_copilot_config_saved
ShowConfiguration(key) ==
    /\ chatSays' = IsConfigured(key)
    /\ settingsSay' = IsConfigured(key)
    /\ testable' = IsConfigured(key)

\* save_config replaces the file or fails; a failure leaves the slot before the
\* panes are told.
SaveConfig(key) ==
    \/ stored' = key /\ ShowConfiguration(key)
    \/ UNCHANGED <<stored, panes>>

\* _on_save: an empty field keeps the key of the dialog's configuration.
Save ==
    /\ call = Idle /\ dialog # Closed
    /\ LET key == IF dialog.field # NoKey THEN dialog.field ELSE dialog.key
       IN  /\ dialog' = [dialog EXCEPT !.key = key]
           /\ SaveConfig(key)
    /\ wiped' = (~dialog.cleared /\ dialog.field = NoKey /\ stored # NoKey /\ stored' = NoKey)
    /\ UNCHANGED <<worker, call, loading, conversation>>

\* _on_clear
ClearKey ==
    /\ call = Idle /\ dialog # Closed
    /\ dialog' = [key |-> NoKey, field |-> NoKey, cleared |-> TRUE]
    /\ SaveConfig(NoKey)
    /\ UNCHANGED <<worker, call, loading, conversation, wiped>>

CloseSettings ==
    /\ call = Idle /\ dialog # Closed
    /\ dialog' = Closed
    /\ UNCHANGED <<stored, worker, panes, call, loading, conversation, wiped>>

-----------------------------------------------------------------------------
(* Calls to the provider. *)

\* CopilotSettingsDialog._on_test, then _on_copilot_test: the field is put into
\* the dialog's configuration, which the worker takes over; without a key the
\* worker answers at once.
TestFromDialog ==
    /\ call = Idle /\ dialog # Closed
    /\ dialog' = [dialog EXCEPT !.key = dialog.field]
    /\ worker' = dialog.field
    /\ call' = IF dialog.field = NoKey THEN Idle ELSE [kind |-> "test", key |-> dialog.field]
    /\ UNCHANGED <<stored, panes, loading, conversation, wiped>>

\* SettingsPage._on_test, then _on_copilot_test.
TestFromSettings ==
    /\ call = Idle /\ dialog = Closed /\ testable
    /\ worker' = LoadConfig
    /\ call' = IF LoadConfig = NoKey THEN Idle ELSE [kind |-> "test", key |-> LoadConfig]
    /\ testable' = (LoadConfig = NoKey)
    /\ UNCHANGED <<stored, dialog, chatSays, settingsSay, loading, conversation, wiped>>

\* _on_copilot_chat: the stored configuration, or an error on the page.
AskWithStoredKey ==
    IF IsConfigured(LoadConfig)
    THEN /\ loading' = TRUE
         /\ worker' = LoadConfig
         /\ call' = [kind |-> "chat", key |-> LoadConfig]
    ELSE UNCHANGED <<loading, worker, call>>

\* CopilotPage._on_send; a page that is not configured only says so.
Ask ==
    /\ call = Idle /\ dialog = Closed /\ ~loading
    /\ chatSays /\ Len(conversation) + 1 < MaxMessages
    /\ conversation' = Append(conversation, "user")
    /\ AskWithStoredKey
    /\ UNCHANGED <<stored, dialog, panes, wiped>>

\* Mutant: an error is shown but the page goes on waiting.
RespondOnSuccess(outcome) ==
    /\ loading' = (loading /\ outcome # "ok")
    /\ conversation' = IF outcome = "ok" THEN Append(conversation, "assistant") ELSE conversation

\* on_response, on_error
Respond(outcome) ==
    /\ loading' = FALSE
    /\ conversation' = IF outcome = "ok" THEN Append(conversation, "assistant") ELSE conversation

\* handle_request captures every failure; _on_copilot_response shows the result.
ChatEnds(outcome) ==
    /\ call # Idle /\ call.kind = "chat"
    /\ call' = Idle
    /\ Respond(outcome)
    /\ UNCHANGED <<stored, dialog, worker, panes, wiped>>

\* _on_copilot_test_result: to the dialog if there is one, else to the page.
TestEnds ==
    /\ call # Idle /\ call.kind = "test"
    /\ call' = Idle
    /\ testable' = (testable \/ dialog = Closed)
    /\ UNCHANGED <<stored, dialog, worker, chatSays, settingsSay, loading, conversation, wiped>>

CallEnds == (\E outcome \in Outcome : ChatEnds(outcome)) \/ TestEnds

CopilotNext ==
    \/ OpenSettings \/ (\E key \in MaybeKey : TypeKey(key))
    \/ Save \/ ClearKey \/ CloseSettings
    \/ TestFromDialog \/ TestFromSettings
    \/ Ask
    \/ (\E outcome \in Outcome : ChatEnds(outcome)) \/ TestEnds

\* Every request has a timeout (CopilotConfig.timeout), so a call ends.
CopilotSpec == CopilotInit /\ [][CopilotNext]_copilotVars /\ WF_copilotVars(CallEnds)

-----------------------------------------------------------------------------
(* What a test says of a key (_friendly_error, request_test_connection). *)

\* _friendly_error, as a class of message.
Friendly(outcome) ==
    CASE outcome = "denied" -> "authentication failed"
      [] outcome = "forbidden" -> "access denied"
      [] outcome = "not_found" -> "model not found"
      [] outcome = "rate_limited" -> "rate limited"
      [] outcome = "server_error" -> "unavailable"
      [] outcome = "timeout" -> "timed out"
      [] outcome = "refused" -> "could not connect"
      [] OTHER -> "other"

TestVerdict(outcome) ==
    CASE outcome = "ok" -> "successful"
      [] Friendly(outcome) \in {"authentication failed", "access denied"} -> "invalid key"
      [] Friendly(outcome) = "timed out" -> "timed out"
      [] Friendly(outcome) = "unavailable" -> "unavailable"
      [] Friendly(outcome) = "model not found" -> "model unavailable"
      [] Friendly(outcome) = "could not connect" -> "no connection"
      [] OTHER -> "as the provider said"

-----------------------------------------------------------------------------
CopilotTypeOK ==
    /\ stored \in MaybeKey /\ worker \in MaybeKey
    /\ dialog \in Dialog \cup {Closed}
    /\ chatSays \in BOOLEAN /\ settingsSay \in BOOLEAN /\ testable \in BOOLEAN
    /\ call \in Call \cup {Idle}
    /\ loading \in BOOLEAN /\ wiped \in BOOLEAN
    /\ conversation \in Seq({"user", "assistant"})

\* Both panes say what the next question will find in the file, after every
\* save, clear, failed save and test; a key of the environment is found there
\* too, though a pane told of a cleared key does not know it.
PanesTellTheTruth ==
    /\ chatSays = settingsSay
    /\ chatSays => IsConfigured(LoadConfig)
    /\ EnvKey = NoKey => chatSays = IsConfigured(stored)

\* Every question is settled, with an answer or an error: the page takes the
\* next one, whatever the provider made of the request.
QuestionsSettle == loading ~> ~loading

\* copilot_settings.py: "An empty key field must not silently wipe a previously
\* saved key; clearing is an explicit action via the Clear Key button."
SavingNeverWipesTheKey == ~wiped

=============================================================================
