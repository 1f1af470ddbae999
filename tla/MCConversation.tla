----------------------------- MODULE MCConversation ----------------------------
(* One page of one message, for TLC. The third stream comes with one change at    *)
(* most, the second change with two streams, and changes with streams of the      *)
(* conversation alone: a stream of notifications is there for the places. No fair *)
(* action asks for a stream or begins a change, so the bound hides no way out of  *)
(* a page that is not current.                                                    *)
EXTENDS Conversation

Asked == {c \in Connections : conns[c].phase # "none"}
FourInAll ==
    /\ changes + Cardinality(Asked) <= 4
    /\ changes > 0 => \A c \in Asked : conns[c].target = "thread"
================================================================================
