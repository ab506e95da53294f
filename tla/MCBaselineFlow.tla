--------------------------- MODULE MCBaselineFlow ----------------------------
(* The instances of BaselineFlow that TLC checks. *)
EXTENDS BaselineFlow, TLC

Daemon == [name |-> "daemon", uid |-> 1, user |-> FALSE, named |-> TRUE]

\* The daemon may run; its socket is read in full or not at all.
WithOrWithout ==
    {[processes |-> ps, packages |-> {}, sockets |-> {}, socketsRead |-> FALSE] :
        ps \in {{}, {Daemon}}}

SharedFile == [s \in Serial |-> CHOOSE f \in File : TRUE]

Phones == Permutations(Serial)

=============================================================================
