----------------------------- MODULE AudioStream -----------------------------
(* What the guest's sound is promised on its way to the host's device: the   *)
(* frames it plays, numbered as the mixer makes them, are heard in that      *)
(* order, each at most once and unchanged. Frames may be lost where the      *)
(* stream enters (nobody listens) and skipped where it leaves (the device    *)
(* stalled). AudioRing does this with a ring two threads share and no lock.  *)
EXTENDS Naturals

CONSTANT MaxFrames    (* bounds how many frames one step moves               *)

VARIABLES gone,       (* the last frame the mixer is rid of                  *)
          size,       (* how many wait,                                      *)
          queue,      (* and which, oldest first                             *)
          out         (* what the device was last handed                     *)

vars == <<gone, size, queue, out>>

Init == gone = 0 /\ size = 0 /\ queue = [i \in 1..0 |-> 0] /\ out = [i \in 1..0 |-> 0]

Enter(n) ==
  /\ queue' = [i \in 1..(size + n) |-> IF i <= size THEN queue[i] ELSE gone + (i - size)]
  /\ size' = size + n /\ gone' = gone + n
  /\ UNCHANGED out

Lose(n) == gone' = gone + n /\ UNCHANGED <<size, queue, out>>

Leave(n) ==
  /\ n <= size
  /\ queue' = [i \in 1..(size - n) |-> queue[i + n]] /\ size' = size - n
  /\ UNCHANGED gone

Hear(n) == Leave(n) /\ out' = [i \in 1..n |-> queue[i]]
Skip(n) == Leave(n) /\ UNCHANGED out

Next == \E n \in 0..MaxFrames : Enter(n) \/ Lose(n) \/ Hear(n) \/ Skip(n)

Spec == Init /\ [][Next]_vars
=============================================================================
