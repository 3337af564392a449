-------------------------------- MODULE Client --------------------------------
(***************************************************************************)
(* One connection of the client (src/src/client): the calls of recv, send  *)
(* and close that Python threads (sync.rs) or asyncio tasks (async.rs)     *)
(* make on it concurrently, the reader's and the writer's lock, and the    *)
(* peer.  A frame is read and written in two steps, for a timeout may fall *)
(* between them.                                                           *)
(***************************************************************************)
EXTENDS Naturals, SequencesExt

CONSTANTS
  FrameKinds,  \* what the peer sends; "large": more than max_message_size
  MaxCalls,    \* bound: calls
  MaxFrames    \* bound: frames of the peer

ASSUME ClientBounds ==
  /\ FrameKinds \subseteq {"data", "ping", "pong", "close", "large"}
  /\ MaxCalls \in Nat /\ MaxFrames \in Nat

VARIABLES
  peer,     \* kinds of the frames the peer has sent
  link,     \* "up", "stalled" (the peer does not read any more) or "broken"
  readBy,   \* sequence of the frames read whole: the call that read each
  partial,  \* call that has read a part of the next frame, or 0
  desync,   \* a part of a frame was dropped or left: what follows is no frame
  rlock,    \* calls that hold (the first) or wait for the reader
  wlock,    \* calls that hold (the first) or wait for the writer
  op,       \* sequence of the calls made: what each is
  pc,       \* what a call does next, or how it ended
  frame,    \* the peer's frame a call has read and handles, or 0
  half,     \* call that has written a part of a frame, or 0
  torn,     \* a part of a frame was written and left
  closed,   \* a close frame was given to the writer: it takes no other
  answers   \* the peer's frames answered, in the order of the answers

vars == <<peer, link, readBy, partial, desync, rlock, wlock, op, pc, frame,
          half, torn, closed, answers>>

Calls   == 1 .. MaxCalls
Ops     == {"recv", "recv_timeout", "send", "close"}
Cut     == {"timed_out", "cancelled"}
Over    == {"value", "done", "closed", "raised"} \cup Cut
Reading == {"reading", "midframe"}
Writing == {"wait_writer", "midwrite"}

Init ==
  /\ peer = << >> /\ link = "up"
  /\ readBy = << >> /\ partial = 0 /\ desync = FALSE
  /\ rlock = << >> /\ wlock = << >>
  /\ op = << >>
  /\ pc = [i \in Calls |-> "unborn"]
  /\ frame = [i \in Calls |-> 0]
  /\ half = 0 /\ torn = FALSE /\ closed = FALSE /\ answers = << >>

-----------------------------------------------------------------------------
Got == Len(readBy)

Goes(i, from, to) == pc[i] = from /\ pc' = [pc EXCEPT ![i] = to]

(* A call joins the queue of its lock when it is first polled.              *)
Call(o) ==
  /\ Len(op) < MaxCalls
  /\ op' = Append(op, o)
  /\ LET i == Len(op') IN
     \/ /\ o \in {"recv", "recv_timeout"}
        /\ Goes(i, "unborn", "wait_reader")
        /\ rlock' = Append(rlock, i)
        /\ UNCHANGED wlock
     \/ /\ o \in {"send", "close"}
        /\ Goes(i, "unborn", "wait_writer")
        /\ wlock' = Append(wlock, i)
        /\ UNCHANGED rlock
  /\ UNCHANGED <<peer, link, readBy, partial, desync, frame, half, torn, closed, answers>>

EnterReader(i) ==
  /\ rlock # << >> /\ Head(rlock) = i
  /\ Goes(i, "wait_reader", "reading")
  /\ UNCHANGED <<peer, link, readBy, partial, desync, rlock, wlock, op, frame,
                 half, torn, closed, answers>>

(* read_frame, up to a part of the next frame.                              *)
BeginFrame(i) ==
  /\ Goes(i, "reading", "midframe")
  /\ Got < Len(peer)
  /\ desync' = (desync \/ partial # 0)
  /\ partial' = i
  /\ UNCHANGED <<peer, link, readBy, rlock, wlock, op, frame, half, torn,
                 closed, answers>>

(* A call waits at most once for a lock.                                    *)
Without(s, i) ==
  IF Contains(s, i) THEN RemoveAt(s, CHOOSE k \in DOMAIN s : s[k] = i) ELSE s

(* The rest of it: a data frame is handed out and the reader with it, a     *)
(* ping and a close are answered first, a pong (like a text that is not     *)
(* UTF-8) is read and raises.  A frame that is too large raises at its      *)
(* header and leaves its payload in the stream; what follows that, or a     *)
(* dropped part, is not understood.                                         *)
FinishFrame(i) ==
  /\ pc[i] = "midframe"
  /\ partial' = 0
  /\ LET kind == peer[Got + 1] IN
     \/ /\ desync \/ kind = "large"
        /\ desync' = TRUE
        /\ pc' = [pc EXCEPT ![i] = "raised"]
        /\ rlock' = Without(rlock, i)
        /\ UNCHANGED <<readBy, wlock, frame>>
     \/ /\ ~ desync /\ kind # "large"
        /\ readBy' = Append(readBy, i)
        /\ frame' = [frame EXCEPT ![i] = Got + 1]
        /\ \/ /\ kind \in {"data", "pong"}
              /\ pc' = [pc EXCEPT ![i] = IF kind = "data" THEN "delivering" ELSE "raised"]
              /\ rlock' = Without(rlock, i)
              /\ UNCHANGED wlock
           \/ /\ kind \in {"ping", "close"}
              /\ pc' = [pc EXCEPT ![i] = "wait_writer"]
              /\ wlock' = Append(wlock, i)
              /\ UNCHANGED rlock
        /\ UNCHANGED desync
  /\ UNCHANGED <<peer, link, op, half, torn, closed, answers>>

IsClose(i) == op[i] = "close" \/ (frame[i] # 0 /\ peer[frame[i]] = "close")

(* write_frame under the writer's lock, up to a part of the frame.          *)
(* Mutant: the answer to the peer is written without the lock.              *)
BeginWrite_AnswersUnlocked(i) ==
  /\ (wlock # << >> /\ Head(wlock) = i) \/ frame[i] # 0
  /\ Goes(i, "wait_writer", "midwrite")
  /\ closed => IsClose(i)
  /\ closed' = (closed \/ IsClose(i))
  /\ torn' = (torn \/ half # 0)
  /\ half' = i
  /\ UNCHANGED <<peer, link, readBy, partial, desync, rlock, wlock, op, frame,
                 answers>>

BeginWrite(i) ==
  /\ wlock # << >> /\ Head(wlock) = i
  /\ Goes(i, "wait_writer", "midwrite")
  /\ closed => IsClose(i)
  /\ closed' = (closed \/ IsClose(i))
  /\ torn' = (torn \/ half # 0)
  /\ half' = i
  /\ UNCHANGED <<peer, link, readBy, partial, desync, rlock, wlock, op, frame,
                 answers>>

(* Mutant: after an answer the call goes on with what it read.              *)
FinishWrite_DropsClose(i) ==
  /\ pc[i] = "midwrite" /\ link # "stalled"
  /\ half' = 0
  /\ answers' = IF frame[i] = 0 THEN answers ELSE Append(answers, frame[i])
  /\ wlock' = Without(wlock, i)
  /\ IF frame[i] = 0 THEN pc' = [pc EXCEPT ![i] = "done"] ELSE pc' = [pc EXCEPT ![i] = "reading"]
  /\ frame' = [frame EXCEPT ![i] = 0]
  /\ UNCHANGED <<peer, link, readBy, partial, desync, rlock, op, torn, closed>>

FinishWrite(i) ==
  /\ pc[i] = "midwrite" /\ link # "stalled"
  /\ half' = 0
  /\ answers' = IF frame[i] = 0 THEN answers ELSE Append(answers, frame[i])
  /\ wlock' = Without(wlock, i)
  /\ \/ /\ frame[i] = 0
        /\ pc' = [pc EXCEPT ![i] = "done"]
        /\ UNCHANGED <<rlock, frame>>
     \/ /\ frame[i] # 0 /\ ~ IsClose(i)
        /\ pc' = [pc EXCEPT ![i] = "reading"]
        /\ frame' = [frame EXCEPT ![i] = 0]
        /\ UNCHANGED rlock
     \/ /\ frame[i] # 0 /\ IsClose(i)
        /\ pc' = [pc EXCEPT ![i] = "delivering"]
        /\ rlock' = Without(rlock, i)
        /\ UNCHANGED frame
  /\ UNCHANGED <<peer, link, readBy, partial, desync, op, torn, closed>>

(* The value or the exception reaches Python.                               *)
Deliver(i) ==
  /\ Goes(i, "delivering", IF IsClose(i) THEN "closed" ELSE "value")
  /\ UNCHANGED <<peer, link, readBy, partial, desync, rlock, wlock, op, frame,
                 half, torn, closed, answers>>

(* A call leaves both locks where it is; of a frame it was reading or       *)
(* writing, a part may be lost or left.                                     *)
(* Mutant: it keeps the writer.                                             *)
Leaves_KeepsWriter(i, how) ==
  /\ pc' = [pc EXCEPT ![i] = how]
  /\ rlock' = Without(rlock, i)
  /\ partial' = IF partial = i THEN 0 ELSE partial
  /\ half' = IF half = i THEN 0 ELSE half
  /\ UNCHANGED <<peer, link, readBy, wlock, op, frame, closed, answers>>

Leaves(i, how) ==
  /\ pc' = [pc EXCEPT ![i] = how]
  /\ rlock' = Without(rlock, i) /\ wlock' = Without(wlock, i)
  /\ partial' = IF partial = i THEN 0 ELSE partial
  /\ half' = IF half = i THEN 0 ELSE half
  /\ UNCHANGED <<peer, link, readBy, op, frame, closed, answers>>

(* Reading fails when the connection is broken, and so may writing; after a *)
(* close frame nothing but a close frame is written.                        *)
Fails(i) ==
  /\ \/ pc[i] \in Reading \cup {"midwrite"} /\ link = "broken"
     \/ pc[i] = "wait_writer" /\ Head(wlock) = i /\ closed /\ ~ IsClose(i)
  /\ Leaves(i, "raised")
  /\ UNCHANGED <<desync, torn>>

CutShort(i, how) ==
  /\ Leaves(i, how)
  /\ IF partial = i THEN desync' \in {desync, TRUE} ELSE UNCHANGED desync
  /\ IF half = i THEN torn' \in {torn, TRUE} ELSE UNCHANGED torn

(* The timeout wraps the read with the answers it gives.                    *)
(* Mutant: it wraps the read of each frame.                                 *)
Timeout_FrameOnly(i) ==
  /\ op[i] = "recv_timeout"
  /\ pc[i] \in Reading
  /\ CutShort(i, "timed_out")

(* Mutant: it falls also on a frame that has been read.                     *)
Timeout_Late(i) ==
  /\ op[i] = "recv_timeout"
  /\ pc[i] \in Reading \cup Writing \cup {"delivering"}
  /\ CutShort(i, "timed_out")

Timeout(i) ==
  /\ op[i] = "recv_timeout"
  /\ pc[i] \in Reading \cup Writing
  /\ CutShort(i, "timed_out")

(* AsyncClient: the asyncio task is cancelled.                              *)
Cancel(i) ==
  /\ pc[i] \notin Over \cup {"unborn"}
  /\ CutShort(i, "cancelled")

-----------------------------------------------------------------------------
PeerSends(k) ==
  /\ link # "broken" /\ Len(peer) < MaxFrames
  /\ peer # << >> => Last(peer) # "close"
  /\ peer' = Append(peer, k)
  /\ UNCHANGED <<link, readBy, partial, desync, rlock, wlock, op, pc, frame, half, torn, closed,
                 answers>>

LinkWorsens ==
  /\ link # "broken"
  /\ link' \in {"stalled", "broken"} \ {link}
  /\ UNCHANGED <<peer, readBy, partial, desync, rlock, wlock, op, pc, frame, half, torn, closed,
                 answers>>

-----------------------------------------------------------------------------
CallStep(i) ==
  \/ EnterReader(i) \/ BeginFrame(i) \/ FinishFrame(i)
  \/ BeginWrite(i) \/ FinishWrite(i) \/ Deliver(i) \/ Fails(i)

Next ==
  \/ \E o \in Ops : Call(o)
  \/ \E i \in DOMAIN op : CallStep(i) \/ Timeout(i) \/ Cancel(i)
  \/ \E k \in FrameKinds : PeerSends(k)
  \/ LinkWorsens

(* Calls are polled and timers fire.                                        *)
Spec ==
  /\ Init /\ [][Next]_vars
  /\ \A i \in Calls : WF_vars(i \in DOMAIN op /\ CallStep(i))
                      /\ WF_vars(i \in DOMAIN op /\ Timeout(i))

-----------------------------------------------------------------------------
(* Frames are read and written whole, whoever calls at once, until a recv   *)
(* times out or a call is cancelled inside one; a call that raised without  *)
(* either leaves no part of a frame behind but the payload of one that is   *)
(* too large, which is the next in the stream for good.                     *)
TooLarge == Got < Len(peer) /\ peer[Got + 1] = "large"

WholeFrames ==
  /\ torn => \E i \in Calls : pc[i] \in Cut
  /\ desync => TooLarge \/ \E i \in Calls : pc[i] \in Cut

(* A message goes to exactly one recv, which returns it unless its task is  *)
(* cancelled: one that timed out has taken none.                            *)
MessagesReachOne ==
  \A n \in 1 .. Got : peer[n] = "data" =>
    LET i == readBy[n] IN frame[i] = n /\ pc[i] \in {"delivering", "value", "cancelled"}

(* The recv that reads a ping or a close answers it, in the order they came,*)
(* and a close ends it with ConnectionClosed (or ends the iteration), unless*)
(* it is cut short or nothing can be written any more.                      *)
Answered(n) == Contains(answers, n)

ControlAnswered ==
  /\ \A n \in 1 .. Got : peer[n] \in {"ping", "close"} =>
       LET i == readBy[n] IN
       \/ frame[i] = n /\ pc[i] \in Writing
       \/ Answered(n) /\ (peer[n] = "close" => pc[i] \in {"delivering", "closed"})
       \/ pc[i] \in Cut
       \/ pc[i] = "raised" /\ (link = "broken" \/ (closed /\ peer[n] = "ping"))
  /\ \A n, m \in DOMAIN answers : n < m => answers[n] < answers[m]

(* A recv with a timeout that has the reader returns, though the peer sends *)
(* nothing, and reads nothing, and though it waits for the writer.          *)
TimedRecvReturns ==
  []<>(\A i \in DOMAIN op : op[i] = "recv_timeout" => pc[i] \notin Reading \cup Writing)

(* While the peer reads, no call stays in writing or waits for the writer.  *)
WritesReturn == []<>(link = "stalled" \/ \A i \in Calls : pc[i] \notin Writing)
=============================================================================
