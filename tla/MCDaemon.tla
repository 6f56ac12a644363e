------------------------------ MODULE MCDaemon ------------------------------
(* Instances of Daemon for TLC.                                            *)
EXTENDS Daemon, TLC

CONSTANTS d1, d2, m1, m2, m3, m4, m5, m6

AllBridge == [m \in Messages |-> "bridge"]

\* One message for each way of a message through the handler.
Mixed == m1 :> "noEcrImage" @@ m2 :> "image" @@ m3 :> "badImage"
         @@ m4 :> "otherType" @@ m5 :> "malformed"
         @@ m6 :> "bridge"

Untagged == m1 :> "noTag" @@ m2 :> "bridge"

DaemonSymmetry == Permutations(Daemons)
=============================================================================
