------------------------------- MODULE Exchange -------------------------------
(* kron session: Exchange, the mailboxes between entities. collect() empties an
   outbox in one step, under the lock of the flows, and delivers afterwards, one
   task a message, while entities come, go, send and read.                     *)
EXTENDS Integers, Sequences, FiniteSets, Functions

CONSTANTS Owners, MaxMessages

VARIABLES
    flows,        \* the flow of each registered owner: its outbox, its inboxes, its items
    sent,         \* every message, its id its place: [sender, recipient]
    inFlight,     \* messages collected and not yet delivered: <<recipient, id>>
    toCollect,    \* owners left in this pass of collect_all
    looping,      \* run() is in its loop
    stopping,     \* _stop
    arrived,      \* <<owner, id>> ever put into an inbox
    departed      \* owners that ever unregistered

exchangeVars == <<flows, sent, inFlight, toCollect, looping, stopping, arrived, departed>>

Everyone == "everyone"     \* recipient None: a broadcast

NewFlow == [outbox |-> <<>>, inbox |-> [s \in Owners |-> <<>>], items |-> {}]

registered == DOMAIN flows

ExchangeInit ==
    /\ flows = <<>> /\ sent = <<>> /\ inFlight = {} /\ toCollect = <<>>
    /\ looping = FALSE /\ stopping = FALSE /\ arrived = {} /\ departed = {}

With(o, flow) == [p \in registered \cup {o} |-> IF p = o THEN flow ELSE flows[p]]

register(o) ==
    /\ o \notin registered
    /\ flows' = With(o, NewFlow)
    /\ UNCHANGED <<sent, inFlight, toCollect, looping, stopping, arrived, departed>>

unregister(o) ==
    /\ o \in registered
    /\ flows' = [p \in registered \ {o} |-> flows[p]]
    /\ departed' = departed \cup {o}
    /\ UNCHANGED <<sent, inFlight, toCollect, looping, stopping, arrived>>

\* The recipient need not be registered.
send(o, recipient) ==
    /\ o \in registered /\ Len(sent) < MaxMessages
    /\ sent' = Append(sent, [sender |-> o, recipient |-> recipient])
    /\ flows' = With(o, [flows[o] EXCEPT !.outbox = Append(@, Len(sent) + 1),
                                        !.items = @ \cup {Len(sent) + 1}])
    /\ UNCHANGED <<inFlight, toCollect, looping, stopping, arrived, departed>>

\* Those who get a message: every other owner for a broadcast, the recipient if registered.
Recipients(o, i) ==
    IF sent[i].recipient = Everyone THEN registered \ {o} ELSE {sent[i].recipient} \cap registered

collect(o) ==
    /\ flows' = With(o, [flows[o] EXCEPT !.outbox = <<>>, !.items = @ \ Range(flows[o].outbox)])
    /\ inFlight' = {d \in Owners \X Range(flows[o].outbox) : d[1] \in Recipients(o, d[2])}

\* run(): the flag is cleared before the loop; each turn is collect_all over a
\* snapshot of the owners, waiting for the deliveries of each, then a sleep.
run ==
    /\ ~looping /\ looping' = TRUE /\ stopping' = FALSE
    /\ UNCHANGED <<flows, sent, inFlight, toCollect, arrived, departed>>

BeginPass ==
    /\ looping /\ toCollect = <<>> /\ inFlight = {}
    /\ IF stopping THEN looping' = FALSE /\ UNCHANGED toCollect
       ELSE UNCHANGED looping /\ toCollect' \in [1..Cardinality(registered) -> registered]
                              /\ IsInjective(toCollect')
    /\ UNCHANGED <<flows, sent, inFlight, stopping, arrived, departed>>

\* An owner that left since the pass began raises ValueError and is skipped.
CollectNext ==
    /\ toCollect # <<>> /\ inFlight = {}
    /\ toCollect' = Tail(toCollect)
    /\ IF Head(toCollect) \in registered THEN collect(Head(toCollect)) ELSE UNCHANGED <<flows, inFlight>>
    /\ UNCHANGED <<sent, looping, stopping, arrived, departed>>

stop == stopping' = TRUE /\ UNCHANGED <<flows, sent, inFlight, toCollect, looping, arrived, departed>>

\* One of the delivery tasks: a recipient that left meanwhile gets nothing.
_deliver_to_Keeps(r, i) ==
    /\ <<r, i>> \in inFlight
    /\ UNCHANGED inFlight
    /\ IF r \notin registered THEN UNCHANGED <<flows, arrived>>
       ELSE /\ flows' = With(r, [flows[r] EXCEPT !.inbox[sent[i].sender] = Append(@, i), !.items = @ \cup {i}])
            /\ arrived' = arrived \cup {<<r, i>>}
    /\ UNCHANGED <<sent, toCollect, looping, stopping, departed>>

_deliver_to(r, i) ==
    /\ <<r, i>> \in inFlight
    /\ inFlight' = inFlight \ {<<r, i>>}
    /\ IF r \notin registered THEN UNCHANGED <<flows, arrived>>
       ELSE /\ flows' = With(r, [flows[r] EXCEPT !.inbox[sent[i].sender] = Append(@, i), !.items = @ \cup {i}])
            /\ arrived' = arrived \cup {<<r, i>>}
    /\ UNCHANGED <<sent, toCollect, looping, stopping, departed>>

pop_message(o, s) ==
    /\ o \in registered /\ flows[o].inbox[s] # <<>>
    /\ flows' = With(o, [flows[o] EXCEPT !.inbox[s] = Tail(@), !.items = @ \ {Head(flows[o].inbox[s])}])
    /\ UNCHANGED <<sent, inFlight, toCollect, looping, stopping, arrived, departed>>

\* What receive() shows: the messages of every inbox, or of one sender's.
receive(o, s) == IF o \notin registered THEN {} ELSE Range(flows[o].inbox[s]) \cap flows[o].items

\* What the event loop does by itself while run() is in its loop.
LoopStep == BeginPass \/ CollectNext \/ \E o \in Owners, i \in 1..Len(sent) : _deliver_to(o, i)

ExchangeNext ==
    \/ \E o \in Owners :
        \/ register(o) \/ unregister(o)
        \/ \E r \in Owners \cup {Everyone} : send(o, r)
        \/ \E s \in Owners : pop_message(o, s)
    \/ run \/ stop \/ LoopStep

ExchangeSpec == ExchangeInit /\ [][ExchangeNext]_exchangeVars

-----------------------------------------------------------------------------
(* Flow's referential integrity under the mailbox operations: in every mailbox the
   items are those its outbox and inboxes refer to, each referred to once.        *)
MailboxesConsistent ==
    \A o \in registered :
        LET out == Range(flows[o].outbox)
            in(s) == Range(flows[o].inbox[s])
        IN  /\ flows[o].items = out \cup UNION {in(s) : s \in Owners}
            /\ IsInjective(flows[o].outbox)
            /\ \A s \in Owners : IsInjective(flows[o].inbox[s]) /\ in(s) \cap out = {}

(* Nothing is misdelivered: what is on its way to an entity, or in its inbox, was
   addressed to it, or broadcast by another, and lies in the inbox of its sender.  *)
AddressedTo(o, i) ==
    \/ sent[i].recipient = o
    \/ sent[i].recipient = Everyone /\ sent[i].sender # o

DeliveredAsAddressed ==
    /\ \A d \in inFlight : AddressedTo(d[1], d[2])
    /\ \A o, s \in Owners : \A i \in receive(o, s) : AddressedTo(o, i) /\ sent[i].sender = s

(* No entity gets a message twice: one delivered, and perhaps already popped, is
   neither on its way again nor still in an outbox.                                *)
DeliveredOnce ==
    \A a \in arrived :
        /\ a \notin inFlight
        /\ \A o \in registered : a[2] \notin Range(flows[o].outbox)

(* While run() loops and is not stopped, a message in an outbox to a registered entity
   reaches it, unless the sender or the recipient leaves.                          *)
ArrivesAt(o, i) ==
    (o \in registered /\ \E p \in registered : i \in Range(flows[p].outbox) /\ sent[i].recipient = o)
        ~> (<<o, i>> \in arrived \/ ~looping \/ stopping \/ o \in departed
            \/ (i <= Len(sent) /\ sent[i].sender \in departed))

(* stop() ends the loop: the pass under way finishes its deliveries and the loop is left. *)
StopEndsLoop == stopping ~> ~looping \/ ~stopping

(* The mail of a session is neither lost track of, misdirected nor delivered twice. *)
MailAccounted == MailboxesConsistent /\ DeliveredAsAddressed /\ DeliveredOnce
=============================================================================
