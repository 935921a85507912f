----------------------------- MODULE StreamFeed -----------------------------
(***************************************************************************)
(* What the reader of a stream command's output is promised: connections   *)
(* begin and end in plain sight, data comes only while one is up, what is  *)
(* shown of a channel is never older than what was shown before, and       *)
(* nothing follows the end.                                                *)
(***************************************************************************)
EXTENDS Integers

CONSTANT Channels

VARIABLES feed,  \* "down", "up", "over"
          view   \* Channels -> the last version shown

feedVars == <<feed, view>>

FeedInit ==
    /\ feed = "down"
    /\ view = [c \in Channels |-> 0]

Connect ==
    /\ feed = "down"
    /\ feed' = "up"
    /\ UNCHANGED view

Show(c) ==
    /\ feed = "up"
    /\ view' = [view EXCEPT ![c] = view'[c]]
    /\ view'[c] > view[c]
    /\ UNCHANGED feed

Disconnect ==
    /\ feed = "up"
    /\ feed' = "down"
    /\ UNCHANGED view

End ==
    /\ feed # "over"
    /\ feed' = "over"
    /\ UNCHANGED view

FeedNext == Connect \/ (\E c \in Channels : Show(c)) \/ Disconnect \/ End

FeedSpec == FeedInit /\ [][FeedNext]_feedVars
=============================================================================
