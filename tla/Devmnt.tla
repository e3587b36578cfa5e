-------------------------------- MODULE Devmnt --------------------------------
(***************************************************************************)
(* The mount driver (9vx/a/devmnt.c): processes share one connection to a  *)
(* 9P server.  Each sends its request and then either reads replies, for   *)
(* everybody, or sleeps until somebody has read its own; m->rip is the one *)
(* that reads.  A note interrupts a process at any point where it sleeps:  *)
(* it then sends a Tflush and waits for that, and so on if noted again.    *)
(*                                                                         *)
(* An Mntrpc has its tag for life, and is called by it.  What happens      *)
(* under m->lk is one step; sleep and wakeup are whole (SleepWakeup).  The *)
(* server and the connection are the environment: messages are not lost or *)
(* reordered on it, and it may hang up.                                    *)
(***************************************************************************)
EXTENDS Naturals, SequencesExt

CONSTANTS
    Proc,    \* processes that use the mount
    Rpc,     \* Mntrpcs there are: bounds the calls and flushes under way
    None     \* nil

ASSUME DevmntAssumption == None \notin Proc \cup Rpc

(* What a reply, or a call, can come to besides an answer to <<p, n>>.       *)
Nothing == <<None, 0>>
Rflush == <<None, 1>>

VARIABLES
    pc,       \* where a process is in mountrpc
    chain,    \* its Mntrpcs, newest flush first, its request last
    serial,   \* which of its calls this is, modulo 2
    target,   \* the Mntrpc that mountmux has completed and is to wake
    queue,    \* m->queue
    rip,      \* m->rip
    done,     \* r->done
    reply,    \* r->reply
    rpcfree,  \* mntalloc.rpcfree, and what malloc has
    server,   \* messages that the server has not answered
    replies,  \* replies that nobody has read
    down      \* the server has hung up

process == <<pc, chain, serial, target>>
rpcs == <<done, reply, rpcfree>>
link == <<server, replies, down>>
vars == <<process, queue, rip, rpcs, link>>

TypeOK ==
    /\ pc \in [Proc -> {"idle", "write", "gate", "sleep", "asleep", "awake", "read",
                        "wake", "flush", "abandon", "return"}]
    /\ chain \in [Proc -> Seq(Rpc)]
    /\ serial \in [Proc -> 0 .. 1]
    /\ target \in [Proc -> Rpc \cup {None}]
    /\ queue \in Seq(Rpc) /\ rpcfree \subseteq Rpc
    /\ rip \in Proc \cup {None}
    /\ done \in [Rpc -> BOOLEAN]
    /\ down \in BOOLEAN

Init ==
    /\ pc = [p \in Proc |-> "idle"]
    /\ chain = [p \in Proc |-> <<>>]
    /\ serial = [p \in Proc |-> 0]
    /\ target = [p \in Proc |-> None]
    /\ queue = <<>>
    /\ rip = None
    /\ done = [r \in Rpc |-> FALSE]
    /\ reply = [r \in Rpc |-> Nothing]
    /\ rpcfree = Rpc
    /\ server = {}
    /\ replies = <<>>
    /\ down = FALSE

----------------------------------------------------------------------------
(* r, the request it flushes in the end, and all of the call's Mntrpcs.      *)
Cur(p) == Head(chain[p])
Request(p) == Last(chain[p])
Held(p) == ToSet(chain[p])
Call(p) == <<p, serial[p]>>

(* mntralloc: r becomes the newest of p's.                                   *)
Alloc(p, r) ==
    /\ r \in rpcfree
    /\ rpcfree' = rpcfree \ {r}
    /\ chain' = [chain EXCEPT ![p] = <<r>> \o @]

Mountrpc(p) ==
    /\ pc[p] = "idle"
    /\ serial' = [serial EXCEPT ![p] = 1 - @]
    /\ \E r \in Rpc : Alloc(p, r) /\ queue' = <<r>> \o queue
    /\ pc' = [pc EXCEPT ![p] = "write"]
    /\ UNCHANGED <<target, rip, done, reply, link>>

(* A note at a process that has left the gate: mntflushalloc, and the flush  *)
(* goes on m->queue in a step of its own.                                    *)
Mntflushalloc(p) ==
    /\ \E r \in Rpc : Alloc(p, r)
    /\ UNCHANGED <<serial, target, queue, done, reply, replies, down>>

Flush(p) ==
    /\ pc[p] = "flush"
    /\ queue' = <<Cur(p)>> \o queue
    /\ pc' = [pc EXCEPT ![p] = "write"]
    /\ UNCHANGED <<chain, serial, target, rip, rpcs, link>>

(* What goes on the wire: a Tflush names the request in the end (oldtag).    *)
(* For the server it is over that request and the earlier flushes of it.     *)
Message(p, old) ==
    [tag |-> Cur(p), call |-> Call(p), old |-> old,
     over |-> {m.tag : m \in {n \in server : old # None /\ old \in {n.tag, n.old}}}]

(* The slip names the message that has just been interrupted.                *)
SendLatest(p) ==
    server' = server \cup {Message(p, IF Len(chain[p]) > 1 THEN chain[p][2] ELSE None)}

Send(p) ==
    server' = server \cup {Message(p, IF Len(chain[p]) > 1 THEN Request(p) ELSE None)}

(* devtab[]->write: whole, or interrupted before or after the message has    *)
(* been queued, or failed because the server has hung up.                    *)
Write(p) ==
    /\ pc[p] = "write"
    /\ ~down
    /\ Send(p)
    /\ pc' = [pc EXCEPT ![p] = "gate"]
    /\ UNCHANGED <<chain, serial, target, queue, rip, rpcs, replies, down>>

WriteInterrupted(p) ==
    /\ pc[p] = "write"
    /\ UNCHANGED server \/ (~down /\ Send(p))
    /\ pc' = [pc EXCEPT ![p] = "flush"]
    /\ Mntflushalloc(p)
    /\ UNCHANGED rip

WriteFails(p) ==
    /\ pc[p] = "write"
    /\ down
    /\ pc' = [pc EXCEPT ![p] = "abandon"]
    /\ UNCHANGED <<chain, serial, target, queue, rip, rpcs, link>>

----------------------------------------------------------------------------
(* The gate: become the reader, or sleep until there is none or the reply    *)
(* has come.                                                                 *)
Gate(p) ==
    /\ pc[p] = "gate"
    /\ IF rip = None
       THEN rip' = p /\ pc' = [pc EXCEPT ![p] = "read"]
       ELSE pc' = [pc EXCEPT ![p] = "sleep"] /\ UNCHANGED rip
    /\ UNCHANGED <<chain, serial, target, queue, rpcs, link>>

(* The slip forgets that the reply may have come since the gate.             *)
RpcattnGate(p) == rip = None

Rpcattn(p) == done[Cur(p)] \/ rip = None

Sleep(p) ==
    /\ pc[p] = "sleep"
    /\ pc' = [pc EXCEPT ![p] = IF Rpcattn(p) THEN "awake" ELSE "asleep"]
    /\ UNCHANGED <<chain, serial, target, queue, rip, rpcs, link>>

Awake(p) ==
    /\ pc[p] = "awake"
    /\ pc' = [pc EXCEPT ![p] = IF done[Cur(p)] THEN "return" ELSE "gate"]
    /\ UNCHANGED <<chain, serial, target, queue, rip, rpcs, link>>

SleepInterrupted(p) ==
    /\ pc[p] \in {"sleep", "asleep", "awake"}
    /\ pc' = [pc EXCEPT ![p] = "flush"]
    /\ Mntflushalloc(p)
    /\ UNCHANGED <<rip, server>>

(* wakeup(&r->r), where the processes are at places.                         *)
Wakeup(places, r) ==
    [p \in Proc |-> IF places[p] = "asleep" /\ Cur(p) = r THEN "awake" ELSE places[p]]

(* mntgate: the first in the queue that is not done and has a sleeper takes  *)
(* over.                                                                     *)
Sleepers == {i \in DOMAIN queue :
                ~done[queue[i]] /\ \E p \in Proc : pc[p] = "asleep" /\ Cur(p) = queue[i]}

Mntgate(p, next) ==
    /\ rip' = None
    /\ LET places == [pc EXCEPT ![p] = next]
       IN  pc' = IF Sleepers = {} THEN places
                 ELSE Wakeup(places, queue[Min(Sleepers)])

----------------------------------------------------------------------------
(* mntrpcread and mountmux: the reply goes to the Mntrpc of its tag, whose   *)
(* process is woken after m->lk has been let go.                             *)
Complete(p, q) ==
    /\ queue' = RemoveFirst(queue, q)
    /\ done' = [done EXCEPT ![q] = TRUE]
    /\ reply' = [reply EXCEPT ![q] = Head(replies).call]
    /\ IF q = Cur(p) THEN UNCHANGED <<pc, target>>
       ELSE /\ pc' = [pc EXCEPT ![p] = "wake"]
            /\ target' = [target EXCEPT ![p] = q]

Reading(p) == pc[p] = "read" /\ ~done[Cur(p)]

Mountmux(p) ==
    /\ Reading(p)
    /\ replies # <<>>
    /\ IF Contains(queue, Head(replies).tag) THEN Complete(p, Head(replies).tag)
       ELSE UNCHANGED <<queue, done, reply, pc, target>>
    /\ replies' = Tail(replies)
    /\ UNCHANGED <<chain, serial, rip, rpcfree, server, down>>

MuxWake(p) ==
    /\ pc[p] = "wake"
    /\ pc' = Wakeup([pc EXCEPT ![p] = "read"], target[p])
    /\ target' = [target EXCEPT ![p] = None]
    /\ UNCHANGED <<chain, serial, queue, rip, rpcs, link>>

ReadInterrupted(p) ==
    /\ Reading(p)
    /\ Mntgate(p, "flush")
    /\ Mntflushalloc(p)
    /\ UNCHANGED server

ReadFails(p) ==
    /\ Reading(p)
    /\ down /\ replies = <<>>
    /\ Mntgate(p, "abandon")
    /\ UNCHANGED <<chain, serial, target, queue, rpcs, link>>

ReadEnds(p) ==
    /\ pc[p] = "read"
    /\ done[Cur(p)]
    /\ Mntgate(p, "return")
    /\ UNCHANGED <<chain, serial, target, queue, rpcs, link>>

----------------------------------------------------------------------------
(* Slip: an unanswered message that is given up stays on m->queue.           *)
NoMntqrm(p) == UNCHANGED queue

Mntqrm(p) ==
    queue' = IF done[Cur(p)] THEN queue ELSE RemoveFirst(queue, Cur(p))

(* A turn of mntflushfree: the newest message leaves the queue if it was not *)
(* answered, and is freed.  The last is the request, flushed if it was not   *)
(* answered; mountrpc returns and the caller frees it.                       *)
Leave(p) ==
    /\ Mntqrm(p)
    /\ rpcfree' = rpcfree \cup {Cur(p)}
    /\ done' = [done EXCEPT ![Cur(p)] = FALSE]
    /\ reply' = [reply EXCEPT ![Cur(p)] = Nothing]
    /\ chain' = [chain EXCEPT ![p] = Tail(@)]
    /\ pc' = IF Len(chain[p]) = 1 THEN [pc EXCEPT ![p] = "idle"] ELSE pc
    /\ UNCHANGED <<serial, target, rip, link>>

Return(p) == pc[p] = "return" /\ Leave(p)

Abandon(p) == pc[p] = "abandon" /\ Leave(p)

----------------------------------------------------------------------------
(* The server answers messages in any order.  When it answers a Tflush it    *)
(* has forgotten the messages the Tflush is over.                            *)
Answer(m) ==
    /\ ~down
    /\ replies' = Append(replies,
           [tag |-> m.tag, call |-> IF m.old = None THEN m.call ELSE Rflush])
    /\ server' = {n \in server \ {m} : n.tag \notin m.over}
    /\ UNCHANGED <<process, queue, rip, rpcs, down>>

Hangup ==
    /\ ~down
    /\ down' = TRUE
    /\ server' = {}
    /\ UNCHANGED <<process, queue, rip, rpcs, replies>>

Step(p) ==
    \/ Flush(p) \/ Write(p) \/ WriteFails(p) \/ Gate(p) \/ Sleep(p) \/ Awake(p)
    \/ Mountmux(p) \/ MuxWake(p) \/ ReadFails(p) \/ ReadEnds(p)
    \/ Return(p) \/ Abandon(p)

Interrupted(p) == WriteInterrupted(p) \/ SleepInterrupted(p) \/ ReadInterrupted(p)

Next ==
    \/ \E p \in Proc : Mountrpc(p) \/ Step(p) \/ Interrupted(p)
    \/ \E m \in server : Answer(m)
    \/ Hangup

Spec == Init /\ [][Next]_vars

(* Processes go on, and the server answers each request while it is up.      *)
AnswerTo(r) == \E m \in server : m.tag = r /\ Answer(m)

Fairness ==
    /\ \A p \in Proc : WF_vars(Step(p))
    /\ \A r \in Rpc : WF_vars(AnswerTo(r))

FairSpec == Spec /\ Fairness

----------------------------------------------------------------------------
(* There is a reader, or a process on its way to become one, as long as      *)
(* anybody sleeps for a reply: the gate is not shut behind the last.         *)
ToTheGate(p) == \/ pc[p] \in {"flush", "write", "gate"}
                \/ pc[p] \in {"sleep", "awake"} /\ ~done[Cur(p)]
SomeoneReads ==
    ~down /\ rip = None /\ (\E p \in Proc : pc[p] = "asleep") =>
        \E p \in Proc : ToTheGate(p)

(* m->queue has each message that is under way and not answered, once, and   *)
(* no Mntrpc that is free.                                                   *)
OnQueue ==
    /\ IsInjective(queue)
    /\ \A p \in Proc : \A r \in Held(p) :
          /\ r \notin rpcfree
          /\ Contains(queue, r) <=> ~done[r] /\ ~(r = Cur(p) /\ pc[p] = "flush")
    /\ \A r \in rpcfree : ~Contains(queue, r)

(* The queue is what it is for, and the gate is open to whoever is to read:  *)
(* no sleeper is left without a reader, and no reply without its Mntrpc.     *)
QueueOK == TypeOK /\ SomeoneReads /\ OnQueue

(* A call that succeeds has the server's answer to that very call: no tag is *)
(* used again while a message with it, or an answer to one, is under way.    *)
RightReply == \A p \in Proc :
    pc[p] = "return" /\ done[Request(p)] => reply[Request(p)] = Call(p)

(* Every call returns, interrupted or not, if the server stays up.           *)
CallsReturn == \A p \in Proc : pc[p] # "idle" ~> pc[p] = "idle" \/ down

----------------------------------------------------------------------------
(* What makes it so.  An Mntrpc is free or in one chain, once.               *)
Chains ==
    /\ \A p \in Proc :
          /\ pc[p] = "idle" <=> chain[p] = <<>>
          /\ IsInjective(chain[p])
          /\ Held(p) \cap rpcfree = {}
    /\ \A p, q \in Proc : p # q => Held(p) \cap Held(q) = {}

(* The messages m of S and the replies of R that belong to the chain c are   *)
(* in the order they were sent in: a Tflush is over the older ones, and once *)
(* one is answered, as D says, nothing older is under way.                   *)
OnWire(r, S, R) ==
    \/ \E m \in S : m.tag = r
    \/ \E i \in DOMAIN R : R[i].tag = r

InOrder(c, S, R, D) == \A a, b \in DOMAIN c :
    /\ \A m, n \in S : m.tag = c[a] /\ n.tag = c[b] =>
          /\ a < b => n.tag \in m.over
          /\ a = b => m = n
    /\ \A i \in DOMAIN R, m \in S : R[i].tag = c[a] /\ m.tag = c[b] => b < a
    /\ \A i, j \in DOMAIN R : i < j /\ R[i].tag = c[a] /\ R[j].tag = c[b] => b < a
    /\ D[c[a]] /\ OnWire(c[b], S, R) => b < a

(* A process gives up only when the server has hung up, and goes out with a  *)
(* reply to its newest message: then none of its messages is under way.      *)
WaysOut == \A p \in Proc :
    /\ pc[p] = "abandon" => down
    /\ pc[p] = "return" =>
          \A a \in DOMAIN chain[p] : ~OnWire(chain[p][a], server, replies)

(* They are about this call, and so is what it has been answered, Y.         *)
About(c, call, S, R, D, Y) ==
    /\ \A m \in S, a \in DOMAIN c : m.tag = c[a] =>
          /\ m.call = call
          /\ m.old = IF a = Len(c) THEN None ELSE c[Len(c)]
    /\ \A i \in DOMAIN R : R[i].tag = c[Len(c)] => R[i].call = call
    /\ D[c[Len(c)]] => Y[c[Len(c)]] = call

InHand(p) ==
    /\ InOrder(chain[p], server, replies, done)
    /\ About(chain[p], Call(p), server, replies, done, reply)

Unused(r) == ~done[r] /\ ~OnWire(r, server, replies)

(* After a hangup this is so only for those who are past writing; nobody     *)
(* else will ever be.                                                        *)
Past == {"gate", "sleep", "asleep", "awake", "read", "wake", "return"}

Calls == \A p \in Proc : pc[p] # "idle" =>
    /\ ~down \/ pc[p] \in Past => InHand(p)
    /\ ~down /\ pc[p] \in {"write", "flush"} => Unused(Cur(p))

TagsClean == ~down => \A r \in rpcfree : Unused(r)

Answers == (Proc \cup {None}) \X (0 .. 1)
Messages == [tag : Rpc, call : Answers, old : Rpc \cup {None}, over : SUBSET Rpc]
Replies == [tag : Rpc, call : Answers]

Types ==
    /\ pc \in [Proc -> {"idle", "write", "abandon", "flush"} \cup Past]
    /\ chain \in [Proc -> Seq(Rpc)]
    /\ serial \in [Proc -> 0 .. 1]
    /\ rpcfree \subseteq Rpc
    /\ done \in [Rpc -> BOOLEAN] /\ reply \in [Rpc -> Answers]
    /\ server \subseteq Messages /\ replies \in Seq(Replies)
    /\ down \in BOOLEAN

(* The inductive invariant behind RightReply.                                *)
IInv == Types /\ Chains /\ WaysOut /\ Calls /\ TagsClean

(* What makes QueueOK so, besides: who reads is m->rip; one that sleeps      *)
(* although its reply has come is about to be woken; and what is about to    *)
(* go on the queue, or is free, has not been answered.                       *)
GateInv ==
    /\ \A p \in Proc :
          /\ rip = p <=> pc[p] \in {"read", "wake"}
          /\ pc[p] = "asleep" /\ done[Cur(p)] =>
                \E q \in Proc : pc[q] = "wake" /\ target[q] = Cur(p)
          /\ pc[p] = "flush" => ~done[Cur(p)]
    /\ \A r \in rpcfree : ~done[r]

QInv == QueueOK /\ GateInv
===============================================================================
