----------------------------- MODULE MCGateOpen -----------------------------
(***************************************************************************)
(* Situations at the gate, three in one run for TLC, two in another under   *)
(* fairness.  One is chosen at the start and kept (plan); each allows other *)
(* steps and sizes, so that a run explores their sum and not their product. *)
(***************************************************************************)
EXTENDS MCGate

VARIABLE plan

OneManifest == \A d \in Device : Cardinality({k \in Slot : refresh'[d][k] # NULL}) <= 1

\* A scan on its way, a second one of the pass, and two manifests.
Repeat == plan = "repeat" /\ RefreshNext

\* One manifest at a time and a desk, whose writes move the clock; it may also have
\* moved on before the first step.
WithDesk == plan = "desk" /\ DeskNext /\ OneManifest /\ (Tick => Opened(1))

\* From the empty database: the pass is issued, and pages are reloaded and left.
FromEmpty == /\ plan = "empty"
             /\ \/ RefreshNext
                \/ \E d \in Device : Reload(d) \/ SignOut(d)
                \/ \E c \in Code : pass[c] = NULL /\ DeskQuiet(c)
             /\ OneManifest

OpenInit == \/ plan = "repeat" /\ Opened(2)
            \/ plan = "desk" /\ Opened(1)
            \/ plan = "empty" /\ Init
OpenNext == (Repeat \/ WithDesk \/ FromEmpty) /\ UNCHANGED plan
OpenSpec == OpenInit /\ [][OpenNext]_<<vars, plan>>

\* Under fairness: two scans on their way and a desk, or one scan over a connection
\* that comes and goes.
SettleInit == plan \in {"desk", "network"} /\ Opened(1)
SettleNext == /\ \/ DeliveryNext
                 \/ plan = "desk" /\ \E c \in Code : DeskQuiet(c)
                 \/ plan = "network" /\ \E d \in Device : Reconnect(d) \/ GarbledAnswer(d)
              /\ plan = "network" => \A e \in Event \ {1} : scan'[e] = NULL
              /\ UNCHANGED plan
SettleSpec == SettleInit /\ [][SettleNext]_<<vars, plan>> /\ Fairness
=============================================================================
