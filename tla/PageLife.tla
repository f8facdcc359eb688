------------------------------ MODULE PageLife ------------------------------
(***************************************************************************)
(* What the indexer promises of a stored page, however it is notified and  *)
(* whatever fails: a page is plain when the crawler has stored it, and the *)
(* indexer, once for each time, either gives it the vector of a text that  *)
(* can have one or excludes it for a text that is too long.  What is       *)
(* indexed stays so until the crawler stores the page again.               *)
(***************************************************************************)
CONSTANTS Page, Content, TooLong, NoContent

VARIABLE page

Kind == {"none", "plain", "indexed", "excluded"}

Init == page = [p \in Page |-> [content |-> NoContent, kind |-> "none"]]

Becomes(p, content, kind) ==
  page' = [page EXCEPT ![p] = [content |-> content, kind |-> kind]]

Store(p) == \E content \in Content : Becomes(p, content, "plain")

\* The text may be one the crawler has replaced meanwhile.
Index(p) == /\ page[p].kind = "plain"
            /\ \E content \in Content \ TooLong : Becomes(p, content, "indexed")

Exclude(p) == /\ page[p].kind = "plain"
              /\ \E content \in TooLong : Becomes(p, content, "excluded")

Next == \E p \in Page : Store(p) \/ Index(p) \/ Exclude(p)

Spec == Init /\ [][Next]_page
=============================================================================
