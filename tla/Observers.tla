----------------------------- MODULE Observers ------------------------------
(***************************************************************************)
(* How a stored block is announced: the watcher of the block store and its *)
(* observer with a buffer (core/watcher.go, blockstore/mem.go), the        *)
(* goroutine watchBlocks that handles the blocks (cosipbft.go), and the    *)
(* listeners of the service, such as the command "roster add"              *)
(* (cosipbft.go: Watch; controller/action.go).                             *)
(*                                                                         *)
(* A block, and the event about it, is its index.  A channel is the        *)
(* sequence of what its buffer holds; its capacity is 1.  The event that   *)
(* ends the round of a follower is not here: in CosiPbft a round may end   *)
(* at any time.                                                            *)
(***************************************************************************)
EXTENDS Integers, Sequences

CONSTANTS
    Listener,     \* calls of Service.Watch
    MaxBlocks     \* bound: blocks

ASSUME ObserversAssumption == MaxBlocks \in Nat

VARIABLES
    stored,      \* number of blocks in the store
    notifying,   \* the store's watcher is calling its observer
    watched,     \* the observer is in the list of the watcher
    ch,          \* observer.ch
    buffer, running, closed,     \* fields of the observer
    pusher,      \* where pushAndWait is: none, top, send, or blocked in send
    transit,     \* ... and what it sends
    handled,     \* the blocks that watchBlocks has received
    handling,    \* watchBlocks: wait, block, or notify
    todo,        \* ... and the listeners that it has yet to notify
    listener,    \* where each listener is
    inbox,       \* its channel
    received,    \* what it has received
    open,        \* its channel is not closed
    stopping,    \* the service is closing
    panicked     \* a goroutine sent on a closed channel

store == <<stored, notifying, watched>>
observer == <<ch, buffer, running, closed, pusher, transit>>
loop == <<handled, handling, todo>>
listeners == <<listener, inbox, received, open>>
vars == <<store, observer, loop, listeners, stopping, panicked>>

Link == 1 .. MaxBlocks

Init ==
    /\ stored = 0 /\ notifying = FALSE /\ watched = TRUE
    /\ ch = << >> /\ buffer = << >> /\ running = FALSE /\ closed = FALSE
    /\ pusher = "none" /\ transit = << >>
    /\ handled = << >> /\ handling = "wait" /\ todo = {}
    /\ listener = [l \in Listener |-> "new"]
    /\ inbox = [l \in Listener |-> << >>]
    /\ received = [l \in Listener |-> << >>]
    /\ open = [l \in Listener |-> TRUE]
    /\ stopping = FALSE /\ panicked = FALSE
-----------------------------------------------------------------------------
(* The block store.                                                        *)

(* A block is stored, under the lock of the state machine, and the watcher *)
(* goes through its observers with the lock for reading.                   *)
Notify ==
    /\ stored < MaxBlocks /\ ~ notifying
    /\ stored' = stored + 1
    /\ notifying' = watched
    /\ UNCHANGED <<watched, observer, loop, listeners, stopping, panicked>>

(* Variant: the channel is tried although pushAndWait has blocks to send.  *)
NotifyCallbackIdle ==
    /\ notifying
    /\ notifying' = FALSE
    /\ IF ch = << >>
       THEN ch' = <<stored>> /\ UNCHANGED <<buffer, running, pusher>>
       ELSE /\ buffer' = Append(buffer, stored)
            /\ running' = TRUE
            /\ pusher' = IF pusher = "none" THEN "top" ELSE pusher
            /\ UNCHANGED ch
    /\ UNCHANGED <<stored, watched, closed, transit, loop, listeners, stopping, panicked>>

(* Variant: the callback waits until the channel is free.                  *)
NotifyCallbackWaits ==
    /\ notifying /\ (closed \/ ch = << >>)
    /\ notifying' = FALSE
    /\ ch' = IF closed THEN ch ELSE <<stored>>
    /\ UNCHANGED <<stored, watched, buffer, running, closed, pusher, transit,
                   loop, listeners, stopping, panicked>>

(* observer.NotifyCallback.                                                *)
NotifyCallback ==
    /\ notifying
    /\ notifying' = FALSE
    /\ \/ closed /\ UNCHANGED <<ch, buffer, running, pusher>>
       \/ /\ ~ closed /\ running
          /\ buffer' = Append(buffer, stored)
          /\ UNCHANGED <<ch, running, pusher>>
       \/ /\ ~ closed /\ ~ running /\ ch = << >>
          /\ ch' = <<stored>>
          /\ UNCHANGED <<buffer, running, pusher>>
       \/ /\ ~ closed /\ ~ running /\ ch # << >>
          /\ buffer' = Append(buffer, stored)
          /\ running' = TRUE
          /\ pusher' = "top"
          /\ UNCHANGED ch
    /\ UNCHANGED <<stored, watched, closed, transit, loop, listeners, stopping, panicked>>

(* Variant: it ends without a change of running.                           *)
PushTopRunning ==
    /\ pusher = "top"
    /\ IF buffer = << >>
       THEN pusher' = "none" /\ UNCHANGED <<buffer, transit>>
       ELSE /\ transit' = <<Head(buffer)>>
            /\ buffer' = Tail(buffer)
            /\ pusher' = "send"
    /\ UNCHANGED <<store, ch, running, closed, loop, listeners, stopping, panicked>>

(* observer.pushAndWait: the critical section.                             *)
PushTop ==
    /\ pusher = "top"
    /\ IF buffer = << >>
       THEN /\ running' = FALSE
            /\ pusher' = "none"
            /\ UNCHANGED <<buffer, transit>>
       ELSE /\ transit' = <<Head(buffer)>>
            /\ buffer' = Tail(buffer)
            /\ pusher' = "send"
            /\ UNCHANGED running
    /\ UNCHANGED <<store, ch, closed, loop, listeners, stopping, panicked>>

(* ... and the send, out of it: it succeeds, waits, or finds the channel   *)
(* closed.                                                                 *)
PushSend ==
    /\ pusher = "send"
    /\ IF closed
       THEN panicked' = TRUE /\ UNCHANGED <<ch, pusher, transit>>
       ELSE /\ UNCHANGED panicked
            /\ IF ch = << >>
               THEN ch' = transit /\ transit' = << >> /\ pusher' = "top"
               ELSE pusher' = "blocked" /\ UNCHANGED <<ch, transit>>
    /\ UNCHANGED <<store, buffer, running, closed, loop, listeners, stopping>>

(* A receiver that takes what ch holds lets a blocked sender go on.        *)
Receive ==
    IF pusher = "blocked"
    THEN ch' = transit /\ transit' = << >> /\ pusher' = "top"
    ELSE ch' = << >> /\ UNCHANGED <<transit, pusher>>

(* Service.Close cancels the context of watchBlocks.                       *)
Stop ==
    /\ ~ stopping
    /\ stopping' = TRUE
    /\ UNCHANGED <<store, observer, loop, listeners, panicked>>

Remove ==
    /\ stopping /\ watched /\ ~ notifying
    /\ watched' = FALSE
    /\ UNCHANGED <<stored, notifying, observer, loop, listeners, stopping, panicked>>

(* observer.close: the channel is drained and closed.                      *)
Close ==
    /\ stopping /\ ~ watched /\ ~ closed
    /\ closed' = TRUE /\ running' = FALSE /\ buffer' = << >>
    /\ IF ch # << >> THEN Receive ELSE UNCHANGED <<ch, transit, pusher>>
    /\ UNCHANGED <<store, loop, listeners, stopping, panicked>>
-----------------------------------------------------------------------------
(* watchBlocks.                                                            *)

NextLink ==
    /\ handling = "wait" /\ ch # << >>
    /\ handled' = Append(handled, Head(ch))
    /\ handling' = "block"
    /\ Receive
    /\ UNCHANGED <<store, buffer, running, closed, todo, listeners,
                   stopping, panicked>>

(* The pool and the roster are up to date: Watcher.Notify of the service,  *)
(* with the lock for reading.                                              *)
HandleBlock ==
    /\ handling = "block"
    /\ todo' = {l \in Listener : listener[l] \in {"listening", "left", "expired"}}
    /\ handling' = "notify"
    /\ UNCHANGED <<store, observer, handled, listeners, stopping, panicked>>

(* NotifyCallback of the service waits until the channel is free.          *)
NotifyListener(l) ==
    /\ handling = "notify" /\ l \in todo /\ inbox[l] = << >>
    /\ inbox' = [inbox EXCEPT ![l] = <<handled[Len(handled)]>>]
    /\ todo' = todo \ {l}
    /\ UNCHANGED <<store, observer, handled, handling, listener, received,
                   open, stopping, panicked>>

Notified ==
    /\ handling = "notify" /\ todo = {}
    /\ handling' = "wait"
    /\ UNCHANGED <<store, observer, handled, todo, listeners, stopping, panicked>>
-----------------------------------------------------------------------------
(* A listener of the service.                                              *)

(* Watcher.Add waits for the readers.                                      *)
Watch(l) ==
    /\ listener[l] = "new" /\ handling # "notify"
    /\ listener' = [listener EXCEPT ![l] = "listening"]
    /\ UNCHANGED <<store, observer, loop, inbox, received, open, stopping, panicked>>

Listen(l) ==
    /\ listener[l] \in {"listening", "expired", "removed"} /\ inbox[l] # << >>
    /\ received' = [received EXCEPT ![l] = @ \o inbox[l]]
    /\ inbox' = [inbox EXCEPT ![l] = << >>]
    /\ UNCHANGED <<store, observer, loop, listener, open, stopping, panicked>>

(* The transaction was found, or not accepted: nobody listens any more.    *)
Leave(l) ==
    /\ listener[l] = "listening"
    /\ listener' = [listener EXCEPT ![l] = "left"]
    /\ UNCHANGED <<store, observer, loop, inbox, received, open, stopping, panicked>>

(* The context ends first.                                                 *)
Timeout(l) ==
    /\ listener[l] = "listening"
    /\ listener' = [listener EXCEPT ![l] = "expired"]
    /\ UNCHANGED <<store, observer, loop, inbox, received, open, stopping, panicked>>

(* Variant: the channel is closed without the lock of the watcher.         *)
UnwatchEarly(l) ==
    /\ listener[l] \in {"left", "expired"}
    /\ listener' = [listener EXCEPT ![l] = "removed"]
    /\ open' = [open EXCEPT ![l] = FALSE]
    /\ UNCHANGED <<store, observer, loop, inbox, received, stopping, panicked>>

(* Watcher.Remove waits for the readers; then the channel is closed.       *)
Unwatch(l) ==
    /\ listener[l] \in {"left", "expired"} /\ handling # "notify"
    /\ listener' = [listener EXCEPT ![l] = "removed"]
    /\ open' = [open EXCEPT ![l] = FALSE]
    /\ UNCHANGED <<store, observer, loop, inbox, received, stopping, panicked>>

Step(l) ==
    NotifyListener(l) \/ Watch(l) \/ Listen(l) \/ Leave(l) \/ Timeout(l) \/ Unwatch(l)

(* A panic is the end of the process.                                      *)
Next ==
    /\ ~ panicked
    /\ \/ Notify \/ NotifyCallback \/ PushTop \/ PushSend \/ Stop \/ Remove \/ Close
       \/ NextLink \/ HandleBlock \/ Notified
       \/ \E l \in Listener : Step(l)

Spec == Init /\ [][Next]_vars

(* Goroutines run, listeners listen, and whoever waits for a lock gets it. *)
FairSpec ==
    /\ Spec
    /\ WF_vars(NotifyCallback) /\ WF_vars(PushTop) /\ WF_vars(PushSend)
    /\ WF_vars(NextLink) /\ WF_vars(HandleBlock) /\ WF_vars(Notified)
    /\ \A l \in Listener :
          WF_vars(NotifyListener(l)) /\ WF_vars(Listen(l)) /\ SF_vars(Unwatch(l))
-----------------------------------------------------------------------------
(* Properties.                                                             *)

(* Blocks are announced in their order: to watchBlocks all of them, until  *)
(* the service stops, and to a listener all from the first that it gets    *)
(* (observer, pushAndWait, Watcher.Notify).                                *)
InOrder ==
    /\ \A i \in 2 .. Len(handled) : handled[i - 1] < handled[i]
    /\ ~ stopping => \A i \in DOMAIN handled : handled[i] = i
    /\ \A l \in Listener : \A i \in 2 .. Len(received[l]) :
          ~ stopping => received[l][i] = received[l][i - 1] + 1

(* The store does not wait for who listens to it, whatever becomes of      *)
(* watchBlocks and of the listeners (NotifyCallback of the block store).   *)
NotBlocked == notifying ~> ~ notifying

(* Every block is handled, and a listener is told the end of its context,  *)
(* as long as every listener listens until then.                           *)
Delivered ==
    [](~ stopping /\ \A l \in Listener : listener[l] # "left") =>
       /\ \A k \in Link : stored >= k ~> Len(handled) >= k
       /\ \A l \in Listener : listener[l] = "expired" ~> ~ open[l]

(* The channel of a listener is open as long as an event may be sent to it *)
(* (Service.Watch removes it from the watcher first).                      *)
ListenersOpen == \A l \in todo : open[l]
=============================================================================
