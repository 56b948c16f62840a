------------------------------ MODULE BusySpans ------------------------------
(***************************************************************************)
(* node_code_hotspots: one thread, driven by timers and immediates.  A     *)
(* round opens a root span for an endpoint and three inner spans, each     *)
(* with a timer whose callback burns half a second in the loop for         *)
(* (counter, i), where counter is global and read when the callback runs.  *)
(***************************************************************************)
EXTENDS Integers, Sequences

OUTER_ROUNDS == 3
INNER_ROUNDS == 3

VARIABLES
  counter,     \* the round, a global
  timers,      \* timers due, in the order set: <<"round">> or <<"span", round, i>>
  immediates,  \* callbacks of setImmediate: the round that set each
  open,        \* spans still open: <<round, i>>; the root is i = -1
  burnt        \* what burnt CPU: [loop, root], the loop and the span it was for

vars == <<counter, timers, immediates, open, burnt>>

Init ==
  /\ counter = 0 /\ timers = <<>> /\ immediates = <<>> /\ open = {} /\ burnt = <<>>

SetTimer(callback) == timers' = Append(timers, callback)

(* The script's own timer of 100 ms.                                        *)
Load ==
  /\ timers = <<>> /\ immediates = <<>> /\ counter = 0
  /\ SetTimer(<<"round">>)
  /\ UNCHANGED <<counter, immediates, open, burnt>>

Due(what) == timers # <<>> /\ Head(timers)[1] = what

RunBusySpans ==
  /\ Due("round")
  /\ timers' = Tail(timers)
  /\ open' = open \cup {<<counter, -1>>}
  /\ immediates' = Append(immediates, counter)
  /\ UNCHANGED <<counter, burnt>>

(* Immediates run after the timers that are due.                            *)
OpenSpans ==
  /\ immediates # <<>>
  /\ LET r == Head(immediates)
     IN  /\ timers' = timers \o [z \in 1..INNER_ROUNDS |-> <<"span", r, z - 1>>]
         /\ open' = open \cup {<<r, z - 1>> : z \in 1..INNER_ROUNDS}
  /\ immediates' = Tail(immediates)
  /\ UNCHANGED <<counter, burnt>>

FirstOfRound(z) == z = 0   \* mutant: the round ends with its first callback

LastOfRound(z) == z = INNER_ROUNDS - 1

RunSpan ==
  /\ Due("span")
  /\ LET r == Head(timers)[2]
         z == Head(timers)[3]
         last == LastOfRound(z)
         more == last /\ counter + 1 < OUTER_ROUNDS
     IN  /\ burnt' = IF counter < OUTER_ROUNDS
                     THEN Append(burnt, [loop |-> <<counter, z>>, root |-> r]) ELSE burnt
         /\ counter' = IF last THEN counter + 1 ELSE counter
         /\ timers' = IF more THEN Append(Tail(timers), <<"round">>) ELSE Tail(timers)
         /\ open' = open \ ({<<r, z>>} \cup IF last THEN {<<r, -1>>} ELSE {})
  /\ UNCHANGED immediates

Next == Load \/ RunBusySpans \/ OpenSpans \/ RunSpan

Spec == Init /\ [][Next]_vars
-----------------------------------------------------------------------------
Ended == counter > 0 /\ timers = <<>> /\ immediates = <<>>

(* Each loop runs once, inside the root span of its own endpoint, and a     *)
(* root span is closed after its inner spans: so each of the nine has the   *)
(* 11 % expected_profile.json asks of it, with its endpoint.                *)
LoopsMatchSpans ==
  /\ \A k \in DOMAIN burnt : burnt[k].loop[1] = burnt[k].root
  /\ \A j, k \in DOMAIN burnt : burnt[j] = burnt[k] => j = k
  /\ \A s \in open : <<s[1], -1>> \in open
  /\ Ended => Len(burnt) = OUTER_ROUNDS * INNER_ROUNDS /\ open = {}
=============================================================================
