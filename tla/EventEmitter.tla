---------------------------- MODULE EventEmitter ----------------------------
(***************************************************************************)
(* karyon_eventemitter: emit, register, recv, cancel and the drop of a     *)
(* listener, for one topic and one type of event.                          *)
(*                                                                         *)
(* emit clones the senders of the listeners that are registered when it    *)
(* looks, and sends to all of them at once.  It returns when each has      *)
(* taken the event or is gone, and then takes out the ones that are gone.  *)
(***************************************************************************)
EXTENDS Naturals, Sequences

CONSTANTS
    Listeners,
    Emitters,     \* tasks that emit
    Events,
    BufferSize    \* listener_buffer_size

VARIABLES
    registered,   \* the map of the senders
    open,         \* listeners that were not dropped
    buffer,       \* each listener's channel
    emits         \* what each emitter is sending: [event, to, failed], none or one

EmitterTypeOK ==
    /\ registered \subseteq Listeners /\ open \subseteq Listeners
    /\ \A l \in Listeners : buffer[l] \in Seq(Events) /\ Len(buffer[l]) <= BufferSize
    /\ \A e \in Emitters :
        \A i \in DOMAIN emits[e] :
            emits[e][i] \in [event : Events, to : SUBSET Listeners, failed : SUBSET Listeners]

EmitterInit(first) ==
    /\ registered = first /\ open = first
    /\ buffer = [l \in Listeners |-> <<>>]
    /\ emits = [e \in Emitters |-> <<>>]

Sending(e) == emits[e] # <<>>
Waits(e, l) == Sending(e) /\ l \in emits[e][1].to

\* A sender in the map or in an emit keeps the channel open.
HasSender(l) == l \in registered \/ \E e \in Emitters : Waits(e, l)

----------------------------------------------------------------------------
(* The emitter                                                             *)

Emit(e, event) ==
    /\ emits[e] = <<>>
    /\ emits' = [emits EXCEPT ![e] = <<[event |-> event, to |-> registered, failed |-> {}]>>]
    /\ UNCHANGED <<registered, open, buffer>>

Send(e, l) ==
    /\ Waits(e, l) /\ l \in open
    /\ Len(buffer[l]) < BufferSize
    /\ buffer' = [buffer EXCEPT ![l] = Append(@, emits[e][1].event)]
    /\ emits' = [emits EXCEPT ![e][1].to = @ \ {l}]
    /\ UNCHANGED <<registered, open>>

SendFails(e, l) ==
    /\ Waits(e, l) /\ l \notin open
    /\ emits' = [emits EXCEPT ![e][1].to = @ \ {l}, ![e][1].failed = @ \cup {l}]
    /\ UNCHANGED <<registered, open, buffer>>

\* A listener that is not there any more is passed over.
Remove(listeners) == registered' = registered \ listeners

EmitReturns(e) ==
    /\ Sending(e) /\ emits[e][1].to = {}
    /\ Remove(emits[e][1].failed)
    /\ emits' = [emits EXCEPT ![e] = <<>>]
    /\ UNCHANGED <<open, buffer>>

----------------------------------------------------------------------------
(* A listener                                                              *)

\* The id is new: no sender of a former listener has it.
RegisterListener(l) ==
    /\ l \notin open /\ ~HasSender(l)
    /\ \A e \in Emitters : Sending(e) => l \notin emits[e][1].failed
    /\ registered' = registered \cup {l}
    /\ open' = open \cup {l}
    /\ UNCHANGED <<buffer, emits>>

Recv(l) ==
    /\ l \in open /\ buffer[l] # <<>>
    /\ buffer' = [buffer EXCEPT ![l] = Tail(@)]
    /\ UNCHANGED <<registered, open, emits>>

\* EventListener::cancel.  The receiver is still there.
Cancel(l) ==
    /\ l \in open \cap registered
    /\ Remove({l})
    /\ UNCHANGED <<open, buffer, emits>>

\* The listener is dropped, and nobody tells the emitter.
Drop(l) ==
    /\ l \in open
    /\ open' = open \ {l}
    /\ buffer' = [buffer EXCEPT ![l] = <<>>]
    /\ UNCHANGED <<registered, emits>>

=============================================================================
