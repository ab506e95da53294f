------------------------------ MODULE Discovery ------------------------------
(***************************************************************************)
(* Which adb the program uses (adb/discovery.py, gui/app.py): the first    *)
(* place of a fixed order that holds a usable executable.  A file is       *)
(* [place, looks, launches]: the resolved path, whether it passes the      *)
(* checks of is_valid_adb, and whether its `adb version` succeeds.         *)
(***************************************************************************)
EXTENDS Naturals, Sequences, FiniteSets

CONSTANT Nowhere     \* no path given, no file found, no executable

\* _bundled_candidates, _environment_candidates: the order of the search.
Order == <<"explicit", "beside the program", "extracted", "PATH", "ANDROID_HOME",
           "ANDROID_SDK_ROOT", "LOCALAPPDATA", "USERPROFILE">>

Frozen == {"beside the program", "extracted"}
Windows == {"LOCALAPPDATA", "USERPROFILE"}

\* The places a program looks at: a packaged one beside itself too, and in the
\* profile of the user on Windows only.
Consulted(packaged, windows) ==
    {i \in DOMAIN Order : /\ Order[i] \in Frozen => packaged
                          /\ Order[i] \in Windows => windows}

\* is_valid_adb, is_usable_adb
LooksRight(file) == file # Nowhere /\ file.looks
IsUsable(file) == LooksRight(file) /\ file.launches

\* _candidates: what looks right, each file once, at the first place it is found.
Candidates(files, consulted) ==
    {i \in consulted :
        /\ LooksRight(files[Order[i]])
        /\ \A j \in consulted : (j < i /\ LooksRight(files[Order[j]]))
              => files[Order[j]].place # files[Order[i]].place}

\* find_adb: the candidates are launched in turn until one succeeds.
Launched(files, consulted) ==
    {i \in Candidates(files, consulted) :
        \A j \in Candidates(files, consulted) : j < i => ~files[Order[j]].launches}

FindAdb(files, consulted) ==
    LET found == {i \in Launched(files, consulted) : files[Order[i]].launches}
    IN  IF found = {} THEN Nowhere ELSE files[Order[CHOOSE i \in found : TRUE]].place

\* main: with nothing found, what was asked for is used as it is, or "adb".
AdbPath(files, consulted, asked) ==
    IF FindAdb(files, consulted) # Nowhere THEN FindAdb(files, consulted)
    ELSE IF asked # Nowhere THEN asked ELSE "adb"

=============================================================================
