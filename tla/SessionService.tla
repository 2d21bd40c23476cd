----------------------------- MODULE SessionService -----------------------------
(***************************************************************************)
(* What a session of cVNSIClient promises to one client, without threads and *)
(* queues: requests are served in the order in which they were sent, each one *)
(* at most once; a request that is served is answered or silently dropped.    *)
(* The input may be cut at any request (the rest is lost), and the session    *)
(* may end, after which nothing is answered any more.                         *)
(***************************************************************************)
EXTENDS Naturals, Sequences

VARIABLES
  count,       \* number of requests sent
  asked,       \* those not served yet, oldest first
  answered,    \* the last one that was answered, 0 if there is none
  open         \* "yes", "draining" when the input was cut, "no"

serviceVars == <<count, asked, answered, open>>

Init == count = 0 /\ asked = << >> /\ answered = 0 /\ open = "yes"

Ask ==
  /\ count' = count + 1
  /\ asked' = IF open = "yes" THEN Append(asked, count + 1) ELSE asked
  /\ UNCHANGED <<answered, open>>

Serve ==
  /\ open # "no" /\ asked # << >>
  /\ answered' \in {answered, Head(asked)}
  /\ \/ asked' = Tail(asked) /\ UNCHANGED open
     \/ asked' = << >> /\ open' = "no"
  /\ UNCHANGED count

Cut ==
  /\ open # "no" /\ open' = "draining"
  /\ \E n \in 0..Len(asked) : asked' = SubSeq(asked, 1, n)
  /\ UNCHANGED <<count, answered>>

End == open' = "no" /\ asked' = << >> /\ UNCHANGED <<count, answered>>

Next == Ask \/ Serve \/ Cut \/ End

Spec == Init /\ [][Next]_serviceVars

=============================================================================
