------------------------------ MODULE URLLife -------------------------------
(***************************************************************************)
(* What the crawler promises of a URL, whatever data it is kept in and     *)
(* whoever works on it: the places a URL goes through.  It is discovered   *)
(* once, only what is under processing gets an outcome or a retry, only a  *)
(* recovery takes it back from there, and an outcome is final.             *)
(***************************************************************************)
CONSTANT URL

VARIABLE place

Place == {"new", "queue", "index", "retry", "closed"}

\* A process starts with what earlier ones left.
Init == place \in [URL -> Place]

Move(urls, from, to) ==
  /\ \A u \in urls : place[u] = from
  /\ place' = [u \in URL |-> IF u \in urls THEN to ELSE place[u]]

Discover(u) == Move({u}, "new", "queue")
TakeOn(u)   == Move({u}, "queue", "index")
Postpone(u) == Move({u}, "index", "retry")
Close(u)    == Move({u}, "index", "closed")
Recover(u)  == Move({u}, "index", "queue")
Enqueue(urls) == Move(urls, "retry", "queue")

Next ==
  \/ \E u \in URL : \/ Discover(u) \/ TakeOn(u) \/ Postpone(u)
                    \/ Close(u) \/ Recover(u)
  \/ \E urls \in SUBSET URL : Enqueue(urls)

Spec == Init /\ [][Next]_place
=============================================================================
