------------------------------ MODULE MCPages -------------------------------
(* The pages for TLC: a link, a text that is none, and answers from every  *)
(* place they may come from.                                               *)
EXTENDS Pages

CONSTANT First   \* one of Jobs

MCLink ==
  [blank |-> FALSE, long |-> FALSE, spaced |-> FALSE, url |-> TRUE,
   web |-> TRUE, dotted |-> TRUE]
MCTexts == {[blank |-> TRUE], MCLink, [MCLink EXCEPT !.dotted = FALSE]}
MCSubmitted ==
  [kind \in Posts |-> IF kind = "createJob" THEN First
                      ELSE CHOOSE j \in Jobs : j # First]
MCEnds == [j \in Jobs |-> IF j = First THEN {"readable", "broken"}
                          ELSE {"newer", NewerReason}]
MCAttempts == [j \in Jobs |-> IF j = First THEN 2 ELSE 1]
MCLosses ==
  [kind \in Kinds |->
     CASE kind = "getJob"           -> Unparsed(502)
       [] kind = "getDocument"      -> Unparsed(200)
       [] kind = "createJob"        -> Unparsed(413)
       [] OTHER                     -> NoReply]
MCRefusals == {"links_disabled"}
=============================================================================
