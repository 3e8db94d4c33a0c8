---------------------------- MODULE MCStatistics ----------------------------
(***************************************************************************)
(* Small instances of Statistics. Each configuration meets the inputs it    *)
(* can tell apart: nothing but the windows reads an event's time or the     *)
(* server's count, and nothing but the tracker reads which probe a reply    *)
(* answers and what it measured. So a collector without windows is given    *)
(* untimed, uncounted replies in every order, and a collector with windows  *)
(* replies that overtake no waiting probe, with one stamp mode and delay.   *)
(***************************************************************************)
EXTENDS Statistics

\* The three kinds of collector explored.
Windows == config.rolling /\ config.limit = {} /\ config.late_replies = "Measure"
Pairing == ~config.rolling
Stamps == ~config.rolling /\ config.limit = {} /\ config.late_replies = "Measure"
OneStamp == config.stamp = "Both" /\ config.clock = "Both"

MCInit == Init /\ (IF OneStamp THEN Windows \/ Pairing ELSE Stamps)

MCNext ==
    \E at \in IF config.rolling THEN Times ELSE {0} :
        \/ \E k \in DOMAIN probes :
             \/ Sent(k, at)
             \/ /\ config.rolling
                /\ \A j \in 0 .. k - 1 : probes[j] # "out"
                /\ \E truth \in Counts : Reply(k, at, 1, 1, truth)
             \/ /\ ~config.rolling
                /\ \E up, down \in IF OneStamp THEN {1} ELSE Delays : Reply(k, at, up, down, {})
             \/ Duplicate(k, at)
             \/ Loss(k, at)
             \/ UntrackedLate(k, at)
        \/ Warning(at)

MCSpec == MCInit /\ [][MCNext]_vars

=============================================================================
