-------------------------- MODULE UnboundedChannel --------------------------
(***************************************************************************)
(* scorpio_utils::threading::Channel<T, 0> (threading/channel.hpp): a      *)
(* deque under a mutex, and a Signal that counts its items.  A sender adds *)
(* its item and then notifies; a receiver first takes one off the Signal,  *)
(* which reserves an item, and then the item.  The contents of the items   *)
(* do not matter here: `items' is how many there are.                      *)
(*                                                                         *)
(* Who is to notify, and who has reserved, is kept by the module that uses *)
(* this one; each operator is one step of the calling thread.              *)
(***************************************************************************)
EXTENDS Integers

VARIABLES items,  \* the size of _items
          closed, \* _closed
          futex   \* _receive_waiter's count, negative when the Signal is closed

vars == <<items, closed, futex>>
CLOSED == -100  \* stands for the -1e9 that Signal::close() stores

Init == items = 0 /\ closed = FALSE /\ futex = 0

\* push(), under the mutex; on a closed channel it throws, and nothing changes
Push == ~ closed /\ items' = items + 1 /\ UNCHANGED <<closed, futex>>
\* ... and then notify_one()
Notify == futex' = futex + 1 /\ UNCHANGED <<items, closed>>

\* try_take() of the Signal, for receive() and eager_select()
TryTake == futex > 0 /\ futex' = futex - 1 /\ UNCHANGED <<items, closed>>
NotReady == futex = 0 /\ UNCHANGED vars
TakeThrows == futex < 0 /\ UNCHANGED vars
\* get_value(), under the mutex
GetValue == items' = items - 1 /\ UNCHANGED <<closed, futex>>

\* close(): the deque, then the Signal
Shut == closed' = TRUE /\ UNCHANGED <<items, futex>>
CloseSignal == futex' = CLOSED /\ UNCHANGED <<items, closed>>
=============================================================================
