----------------------------- MODULE MCProposal -----------------------------
(***************************************************************************)
(* An instance of Proposal: two chunks, two known entities and a new one,  *)
(* a thread, and claims of every kind with good and bad evidence.          *)
(***************************************************************************)
EXTENDS Proposal

Base == [kind |-> "fact", refs |-> {"e1"}, named |-> {"e1"}, aka |-> {},
         cites |-> {1}, exact |-> {1}, close |-> {}, p |-> 0, title |-> "war",
         op |-> "open", topic |-> TRUE, kin |-> TRUE]

Thread(p, title, op) ==
  [Base EXCEPT !.kind = "thread", !.refs = {}, !.named = {}, !.p = p, !.title = title, !.op = op]

Both == [Base EXCEPT !.refs = {"e1", "e2"}, !.named = {}]

MCPool ==
  { Base,
    [Base EXCEPT !.named = {}, !.aka = {"e1"}],
    [Base EXCEPT !.refs = {"m1"}, !.named = {"m1"}, !.cites = {1, 9}],
    [Base EXCEPT !.cites = {2, 9}],
    [Base EXCEPT !.exact = {}, !.close = {2}],
    [Base EXCEPT !.kind = "event", !.refs = {"e1", "e2"}, !.exact = {}],
    [Base EXCEPT !.kind = "relationship", !.refs = {"e1", "e2"}, !.aka = {"e2"}],
    [Base EXCEPT !.kind = "alias"],
    [Base EXCEPT !.kind = "alias", !.refs = {"m1"}],
    [Base EXCEPT !.refs = {"m1"}, !.named = {}, !.aka = {"m1"}],
    [Base EXCEPT !.kind = "alias", !.refs = {"e2"}, !.exact = {}],
    [Both EXCEPT !.kind = "reveal"],
    [Both EXCEPT !.kind = "reveal", !.cites = {2}, !.exact = {}],
    [Both EXCEPT !.kind = "identity"],
    [Base EXCEPT !.kind = "identity"],
    Thread(1, "war", "open"),
    Thread(1, "war", "advance"),
    Thread(0, "war", "mark_dormant"),
    [Thread(0, "war", "reopen") EXCEPT !.topic = FALSE] }

NoMatch == [same |-> {}, near |-> {}, sure |-> FALSE, like |-> {}]

MCMatches ==
  { NoMatch,
    [NoMatch EXCEPT !.same = {"e1", "e9"}],
    [NoMatch EXCEPT !.near = {"e1"}, !.sure = TRUE],
    [NoMatch EXCEPT !.near = {"e1", "e9"}, !.like = {"e9"}],
    [NoMatch EXCEPT !.near = {"e1"}, !.like = {"e2"}] }

=============================================================================
