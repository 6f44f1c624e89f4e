----------------------------- MODULE RosVariable -----------------------------
(***************************************************************************)
(* ros::RosVariable (ros_variable.hpp): a value that a ROS topic sets and   *)
(* another topic shows.  The publisher is transient-local with depth 1: a  *)
(* late subscriber gets the last message published, `retained'.            *)
(*                                                                         *)
(* One executor thread runs the callbacks of the node and the application. *)
(* The application's callback may call the variable it is called from.     *)
(***************************************************************************)
EXTENDS Naturals, Sequences

CONSTANTS
  Contents,        \* messages
  Default,         \* T(), one of them
  NoMessage,       \* no message retained
  IgnoreSameValue, \* the template's parameter
  MaxEditors       \* bound: editors alive together

ASSUME RosAssumption == /\ Default \in Contents /\ NoMessage \notin Contents
                        /\ IgnoreSameValue \in BOOLEAN /\ MaxEditors \in Nat

VARIABLES
  value,     \* _value
  retained,  \* what _publisher sent last
  writable,  \* _subscriber is there
  timer,     \* _timer is there
  callback,  \* _callback is there
  editors,   \* the _value of every editor, oldest first
  receiving, \* the message subscriber_callback() is in the application's callback with
  moved      \* history: the value was moved away and none published since
rosVars == <<value, retained, writable, timer, callback, editors, receiving, moved>>

RosInit == \E v \in Contents, publish_on_create, has_subscriber \in BOOLEAN :
             /\ value = v /\ writable = has_subscriber
             /\ retained = IF publish_on_create THEN v ELSE NoMessage
             /\ moved = FALSE
             /\ timer = FALSE /\ callback = FALSE
             /\ editors = <<>> /\ receiving = NoMessage

Publish(v) == retained' = v /\ moved' = FALSE

SetTo(v) == IF IgnoreSameValue /\ value = v THEN UNCHANGED <<value, retained, moved>>
                                            ELSE value' = v /\ Publish(v)

-----------------------------------------------------------------------------
\* subscriber_callback(), up to the application's callback
Receive(m) ==
  /\ writable /\ receiving = NoMessage
  /\ ~(IgnoreSameValue /\ value = m)
  /\ value' = m
  /\ IF callback THEN receiving' = m /\ UNCHANGED <<retained, moved>>
                 ELSE Publish(m) /\ UNCHANGED receiving
  /\ UNCHANGED <<writable, timer, callback, editors>>

\* Seeded bug: what is published is the message, not the value.
PublishMessage ==
  /\ receiving # NoMessage
  /\ Publish(receiving) /\ receiving' = NoMessage
  /\ UNCHANGED <<value, writable, timer, callback, editors>>

\* its end, when the application's callback has returned
PublishValue ==
  /\ receiving # NoMessage
  /\ Publish(value) /\ receiving' = NoMessage
  /\ UNCHANGED <<value, writable, timer, callback, editors>>

TimerCallback == /\ timer /\ receiving = NoMessage
                 /\ Publish(value)
                 /\ UNCHANGED <<value, writable, timer, callback, editors, receiving>>

-----------------------------------------------------------------------------
(* The application, in its callback or elsewhere                           *)

Set(v) == SetTo(v) /\ UNCHANGED <<writable, timer, callback, editors, receiving>>

\* What is left behind is not specified; it may even equal the next value set.
GetMove == /\ value' \in Contents /\ moved' = TRUE
           /\ UNCHANGED <<retained, writable, timer, callback, editors, receiving>>

\* make_writable(), make_read_only()
MakeWritable(b) ==
  writable' = b /\ UNCHANGED <<value, retained, timer, callback, editors, receiving, moved>>

\* set_timer(), reset_timer()
SetTimer(b) ==
  timer' = b /\ UNCHANGED <<value, retained, writable, callback, editors, receiving, moved>>

\* set_callback(), reset_callback(); a callback does not destroy itself
SetCallback(b) ==
  /\ receiving = NoMessage
  /\ callback' = b /\ UNCHANGED <<value, retained, writable, timer, editors, receiving, moved>>

\* A new publisher has sent nothing.
RecreatePublisher ==
  /\ retained' = NoMessage
  /\ UNCHANGED <<value, writable, timer, callback, editors, receiving, moved>>

\* An editor starts from T(), not from the variable's value.
Edit == /\ Len(editors) < MaxEditors
        /\ editors' = Append(editors, Default)
        /\ UNCHANGED <<value, retained, writable, timer, callback, receiving, moved>>

Assign(e, v) ==
  /\ e \in DOMAIN editors
  /\ editors' = [editors EXCEPT ![e] = v]
  /\ UNCHANGED <<value, retained, writable, timer, callback, receiving, moved>>

Flush(e) == /\ e \in DOMAIN editors
            /\ SetTo(editors[e])
            /\ UNCHANGED <<writable, timer, callback, editors, receiving>>

\* ~RosVariableEditor(): the editor made last goes first
EndEdit == /\ editors # <<>>
           /\ SetTo(editors[Len(editors)])
           /\ editors' = SubSeq(editors, 1, Len(editors) - 1)
           /\ UNCHANGED <<writable, timer, callback, receiving>>

RosNext ==
  \/ \E v \in Contents : Receive(v) \/ Set(v) \/ \E e \in 1 .. MaxEditors : Assign(e, v)
  \/ PublishValue \/ TimerCallback \/ GetMove \/ RecreatePublisher
  \/ \E b \in BOOLEAN : MakeWritable(b) \/ SetTimer(b) \/ SetCallback(b)
  \/ Edit \/ EndEdit \/ \E e \in 1 .. MaxEditors : Flush(e)

RosSpec == RosInit /\ [][RosNext]_rosVars

-----------------------------------------------------------------------------
\* Outside the callback of a message a late subscriber gets the value the variable has,
\* if anything was published by this publisher and the value was not moved away: also
\* when the application's callback set or edited the variable before the message that
\* called it was answered (ros_variable.hpp:49-60).
LateSubscribersGetTheValue ==
  receiving = NoMessage /\ ~moved => retained \in {NoMessage, value}
=============================================================================
