------------------------------ MODULE MCVisit -------------------------------
(***************************************************************************)
(* A site for Visit: its start page links to a directory, with one slash   *)
(* and with two, to itself in capitals, to another port and to another     *)
(* host; the directory is redirected to the form with a slash and links to *)
(* a page beside it; it and the start page answer now and then; the page   *)
(* is for Chrome, and its script leads to another address; the other port  *)
(* leads to another host.                                                  *)
(***************************************************************************)
EXTENDS Visit

CONSTANTS h, h8080, o   \* two ports of a host, and another host

At(host, path) == [host |-> host, upper |-> FALSE, path |-> path, query |-> FALSE]

MCHostname == [x \in Host |-> IF x = o THEN "o" ELSE "h"]

MCPath == {<<>>, <<"">>, <<"dir">>, <<"dir", "">>, <<"dir", "", "">>, <<"page">>,
           <<"dir", "page">>}

Directories == {<<"dir">>, <<"dir", "">>, <<"dir", "", "">>}

MCRaw == {[At(h, <<"page">>) EXCEPT !.query = TRUE, !.upper = up] : up \in BOOLEAN}

MCRedirect ==
  [a \in Address |->
     IF a = At(h, <<"dir">>) THEN At(h, <<"dir", "">>)
     ELSE IF a = At(h8080, <<>>) THEN [At(o, <<"">>) EXCEPT !.query = TRUE] ELSE a]

MCScript ==
  [a \in Address |-> IF a.path = <<"page">> THEN At(h, <<"dir", "">>) ELSE a]

Html == [status |-> "ok", header |-> "text", nosniff |-> FALSE,
         sniffed |-> "text", spa |-> FALSE]

MCAnswers ==
  [a \in Address |->
     CASE a.path = <<"page">>     -> {[Html EXCEPT !.spa = TRUE],
                                      [Html EXCEPT !.status = "retry"]}
       [] a.host # h              -> {Html, [Html EXCEPT !.sniffed = "binary"],
                                      [Html EXCEPT !.status = "impossible"]}
       [] a.path = <<>>           -> {Html, [Html EXCEPT !.status = "retry"]}
       [] OTHER                   -> {Html}]

Rooted(path) == [rooted |-> TRUE, path |-> path, query |-> FALSE]

MCHrefs ==
  [a \in Address |->
     IF a.path \in Directories
     THEN {[rooted |-> FALSE, path |-> <<"page">>, query |-> TRUE]}
     ELSE IF a.host = o THEN {Rooted(<<"">>), At(h, <<"dir", "page">>)}
     ELSE {Rooted(<<"dir", "">>), Rooted(<<"dir", "", "">>), Rooted(<<"">>),
           [At(h, <<"page">>) EXCEPT !.upper = TRUE], At(h8080, <<"">>), At(o, <<>>)}]
=============================================================================
