------------------------------- MODULE FollowMe -------------------------------
(* A presentation that the others follow (wsd/ClientSession.cpp): the broker  *)
(* remembers the slide and the effect that the leader shows, and tells them   *)
(* to the other sessions and to one that comes in the middle.                 *)
(*                                                                            *)
(* A session handles a message of its client, and what it sends arrives in    *)
(* the order in which it was sent.                                            *)
EXTENDS Integers

CONSTANTS
  Session,      \* the sessions
  Leader,       \* the one that presents
  MaxSlides     \* slides, and effects of a slide

FollowAssumption == Leader \in Session /\ MaxSlides \in Nat \ {0}

NoSlide == -1
NoEffect == -1

VARIABLES
  guest,      \* the sessions: where they are, and what their clients show
  follow,     \* the presentation, as the DocumentBroker has it
  leader      \* what the leader shows

followVars == <<guest, follow, leader>>

Others == Session \ {Leader}
Slides == 1..MaxSlides
Start == [slide |-> NoSlide, effect |-> NoEffect]

Init ==
  /\ guest = [s \in Session |->
       [state |-> IF s = Leader THEN "in" ELSE "coming", follows |-> FALSE, at |-> Start]]
  /\ follow = [on |-> FALSE, at |-> Start]
  /\ leader = Start
-----------------------------------------------------------------------------
(* broadcastMessageToOthers(): to those that have not loaded yet as well.     *)
Broadcast(told) ==
  guest' = [s \in Session |->
    IF s \in Others /\ guest[s].state # "gone" THEN told[s] ELSE guest[s]]

MayPresent == guest[Leader].state = "in"

(* The broker keeps the slide of the last presentation until there is one of  *)
(* this.                                                                      *)
NewFollowMePresentation ==
  /\ MayPresent /\ ~follow.on
  /\ follow' = [follow EXCEPT !.on = TRUE]
  /\ leader' = Start
  /\ Broadcast([s \in Session |-> [guest[s] EXCEPT !.follows = TRUE]])

(* Mutant: the broker keeps the effect of the last slide. *)
DisplaySlideKeeps(n) ==
  /\ MayPresent /\ follow.on
  /\ leader' = [slide |-> n, effect |-> NoEffect]
  /\ follow' = [follow EXCEPT !.at.slide = n]
  /\ Broadcast([s \in Session |-> [guest[s] EXCEPT !.at = leader']])

(* A new slide starts without its effects. *)
DisplaySlide(n) ==
  /\ MayPresent /\ follow.on
  /\ leader' = [slide |-> n, effect |-> NoEffect]
  /\ follow' = [follow EXCEPT !.at = leader']
  /\ Broadcast([s \in Session |-> [guest[s] EXCEPT !.at = leader']])

Effect(n) ==
  /\ MayPresent /\ follow.on /\ leader.slide # NoSlide
  /\ leader' = [leader EXCEPT !.effect = n]
  /\ follow' = [follow EXCEPT !.at.effect = n]
  /\ Broadcast([s \in Session |-> [guest[s] EXCEPT !.at.effect = n]])

EndPresentation ==
  /\ MayPresent /\ follow.on
  /\ follow' = [follow EXCEPT !.on = FALSE]
  /\ Broadcast([s \in Session |-> [guest[s] EXCEPT !.follows = FALSE]])
  /\ UNCHANGED leader

(* The end of loadDocument().                                                 *)
Comes(s) ==
  /\ guest[s].state = "coming"
  /\ guest' = [guest EXCEPT ![s] =
       IF follow.on THEN [state |-> "in", follows |-> TRUE, at |-> follow.at]
                    ELSE [@ EXCEPT !.state = "in"]]
  /\ UNCHANGED <<follow, leader>>

(* Nobody ends the presentation of a leader that leaves.                      *)
Leaves(s) ==
  /\ guest[s].state # "gone"
  /\ guest' = [guest EXCEPT ![s].state = "gone"]
  /\ UNCHANGED <<follow, leader>>

(* A new session of a user that has left. *)
Connects(s) ==
  /\ guest[s].state = "gone"
  /\ guest' = [guest EXCEPT ![s] = [state |-> "coming", follows |-> FALSE, at |-> Start]]
  /\ UNCHANGED <<follow, leader>>
-----------------------------------------------------------------------------
Next ==
  \/ NewFollowMePresentation \/ EndPresentation
  \/ \E n \in Slides : DisplaySlide(n) \/ Effect(n)
  \/ \E s \in Session : Comes(s) \/ Leaves(s) \/ Connects(s)

Spec == Init /\ [][Next]_followVars
-----------------------------------------------------------------------------
(* Once a presentation shows a slide, whoever is in the document follows it   *)
(* and shows what the leader shows, also if he came in the middle of it, or   *)
(* came back; the leader himself may have come back.                          *)
FollowersFollow ==
  \A s \in Others :
    guest[s].state = "in" /\ follow.on /\ leader.slide # NoSlide =>
      guest[s].follows /\ guest[s].at = leader
=============================================================================
