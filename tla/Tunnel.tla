------------------------------- MODULE Tunnel -------------------------------
(***************************************************************************)
(* The inside of one tunnel, the part the HTTP, SOCKS5 and Shadowsocks     *)
(* handlers share: the goroutine that forwards a plain HTTP request, the   *)
(* two copy goroutines, the sniffer that waits for the client's first      *)
(* bytes, sniffing.ReadWriterNotice that collects them, the loop that      *)
(* waits for an end and the deferred calls that take the tunnel down.      *)
(*                                                                         *)
(* The client's stream is the chunks 1, 2, ...; chunk i is what one Read   *)
(* returns.  A Read or Write on a socket can always fail: the peer resets  *)
(* or closes the connection, or the deadline set by Conn passes.           *)
(***************************************************************************)
EXTENDS Naturals, Sequences

CONSTANTS MaxUp, MaxDown,    \* bounds: chunks the client and the target send
          Domains,           \* what a sniffed buffer or a blacklist can name
          Host,              \* the destination as the client gave it
          none               \* "", nil: no domain, no buffer

ASSUME TunnelAssumption ==
    /\ MaxUp \in Nat /\ MaxDown \in Nat
    /\ none \notin Domains \cup {Host}
    /\ none \notin Seq(Nat)

VARIABLES
    forward, sniff,      \* the handler's case: plain HTTP request; no domain known
    main, helper,        \* the handler; the goroutine of a plain request
    up, down, sniffer,   \* the goroutines of the tunnel
    clientOpen, targetOpen,      \* this side's sockets
    ctxDone,             \* ctx or, in the loop, its child connCtx.ctx is done
    done, errCh, errOpen, byteChan, byteOpen,
    isStart, isNotice, buf,      \* ReadWriterNotice
    inUp, inDown, read, replies,
                         \* chunk in hand of a copy; chunks read from the peers
    got,                 \* chunks the target had when it first answered
    taken, sbuf,         \* buffers in the hands of Write and of the sniffer
    domain, blackMap,    \* domainPointer, manager.blackMap
    report, blackLog,    \* what was reported
    notice               \* history: the buffer sent on byteChan

gor == <<main, helper, up, down, sniffer>>
socks == <<clientOpen, targetOpen>>
chans == <<done, errCh, errOpen, byteChan, byteOpen>>
rwn == <<isStart, isNotice, buf>>
data == <<inUp, inDown, read, got, replies, taken, sbuf, notice>>
logs == <<domain, blackMap, report, blackLog>>
kind == <<forward, sniff>>
vars == <<kind, gor, socks, ctxDone, chans, rwn, data, logs>>

(* The domain is empty when the destination is an address; a plain request *)
(* is never sniffed.                                                       *)
Init ==
    /\ forward \in BOOLEAN /\ sniff \in BOOLEAN /\ ~(forward /\ sniff)
    /\ main = IF forward THEN "forward" ELSE "setup"
    /\ helper = IF forward THEN "select" ELSE "ended"
    /\ up = "off" /\ down = "off" /\ sniffer = "off"
    /\ clientOpen = TRUE /\ targetOpen = TRUE
    /\ ctxDone = FALSE
    /\ done = FALSE
    /\ errCh = 0 /\ errOpen = TRUE
    /\ byteChan = <<>> /\ byteOpen = TRUE
    /\ isStart = FALSE /\ isNotice = FALSE /\ buf = none
    /\ inUp = 0 /\ inDown = 0 /\ read = 0 /\ got = 0 /\ replies = 0
    /\ taken = none /\ sbuf = none
    /\ domain \in CASE sniff -> {none}
                    [] forward -> Domains \cup {none}
                    [] OTHER -> Domains
    /\ blackMap \in {B \in SUBSET Domains : domain \notin B}
    /\ report = none /\ blackLog = FALSE
    /\ notice = none

-----------------------------------------------------------------------------
(* A plain HTTP request is written to the target while a goroutine watches *)
(* the context; both meet on an unbuffered channel.                        *)
ForwardRequest ==
    /\ main = "forward"
    /\ \/ targetOpen /\ main' = "drain"
       \/ main' = "drainErr"
    /\ UNCHANGED <<kind, helper, up, down, sniffer, socks, ctxDone, chans, rwn,
                   data, logs>>

WatchContext ==
    /\ helper = "select"
    /\ \/ ctxDone /\ targetOpen' = FALSE
       \/ main \in {"drain", "drainErr"} /\ UNCHANGED targetOpen
    /\ helper' = "ended"
    /\ UNCHANGED <<kind, main, up, down, sniffer, clientOpen, ctxDone, chans, rwn,
                   data, logs>>

(* for range done: until the goroutine closes the channel.  After an error *)
(* the handler returns and its caller closes the client socket.            *)
Drained ==
    /\ helper = "ended"
    /\ \/ /\ main = "drain"
          /\ main' = "setup"
          /\ UNCHANGED socks
       \/ /\ main = "drainErr"
          /\ main' = "returned"
          /\ clientOpen' = FALSE /\ targetOpen' = FALSE
    /\ UNCHANGED <<kind, helper, up, down, sniffer, ctxDone, chans, rwn, data, logs>>

(* The channels are made, the client's side is wrapped in a                *)
(* ReadWriterNotice when there is something to sniff, and the goroutines   *)
(* are started.                                                            *)
Setup ==
    /\ main = "setup"
    /\ main' = "loop"
    /\ up' = "start" /\ down' = "start"
    /\ sniffer' = IF sniff THEN "select" ELSE "ended"
    /\ isStart' = sniff
    /\ buf' = IF sniff THEN <<>> ELSE none
    /\ UNCHANGED <<kind, helper, socks, ctxDone, chans, isNotice, data, logs>>

-----------------------------------------------------------------------------
(* CopyBuffer(netTarget, LimitedReader(netConn)).                          *)
UpDo(l) == up = l
UpTo(l) == up' = l
UpLeaves == <<kind, main, helper, down, sniffer, socks, ctxDone, done, byteChan,
              byteOpen, isStart, isNotice, inDown, replies, taken, sbuf, notice, logs>>

(* LimitedReader.Read looks at the context, ReadWriterNotice.Read at       *)
(* isStart.                                                                *)
UpStart ==
    /\ UpDo("start")
    /\ \/ ctxDone /\ UpTo("send")
       \/ sniff /\ ~isStart /\ UpTo("send")
       \/ (~sniff \/ isStart) /\ UpTo("read")
    /\ UNCHANGED <<UpLeaves, errCh, errOpen, buf, inUp, read, got>>

(* rw.Read: a chunk, or nothing and an error. *)
UpRead ==
    /\ UpDo("read")
    /\ \/ /\ clientOpen
          /\ read < MaxUp
          /\ read' = read + 1
          /\ inUp' = read + 1
       \/ /\ inUp' = 0
          /\ UNCHANGED read
    /\ UpTo(IF sniff THEN "check" ELSE "write")
    /\ UNCHANGED <<UpLeaves, errCh, errOpen, buf, got>>

(* Mutant: only the first Read is collected. *)
UpCheck_FirstOnly ==
    /\ UpDo("check")
    /\ UpTo(IF isNotice \/ buf # <<>> THEN "write" ELSE "append")
    /\ UNCHANGED <<UpLeaves, errCh, errOpen, buf, inUp, read, got>>

(* if !isNotice.Load() ... *)
UpCheck ==
    /\ UpDo("check")
    /\ UpTo(IF isNotice THEN "write" ELSE "append")
    /\ UNCHANGED <<UpLeaves, errCh, errOpen, buf, inUp, read, got>>

(* ... append under the lock. *)
UpAppend ==
    /\ UpDo("append")
    /\ buf' = IF buf # none /\ inUp # 0 THEN Append(buf, inUp) ELSE buf
    /\ UpTo("write")
    /\ UNCHANGED <<UpLeaves, errCh, errOpen, inUp, read, got>>

(* The flow limit lets the chunk through and netTarget.Write takes it; or  *)
(* the copy ends, because the read or the write failed or the context is   *)
(* done while the limit makes it wait.                                     *)
UpWrite ==
    /\ UpDo("write")
    /\ \/ /\ inUp # 0
          /\ targetOpen
          /\ got' = IF replies = 0 THEN got + 1 ELSE got
          /\ UpTo("start")
       \/ /\ UpTo("send")
          /\ UNCHANGED got
    /\ inUp' = 0
    /\ UNCHANGED <<UpLeaves, errCh, errOpen, buf, read>>

(* errCh <- err; wg.Done() *)
UpSend ==
    /\ UpDo("send")
    /\ errCh < 2
    /\ errCh' = errCh + 1
    /\ inUp' = 0
    /\ UpTo("ended")
    /\ UNCHANGED <<UpLeaves, errOpen, buf, read, got>>

(* A socket read returns for certain only once this side has closed. *)
UpProgress ==
    \/ UpStart \/ UpCheck \/ UpAppend \/ UpWrite \/ UpSend
    \/ ~clientOpen /\ UpRead

-----------------------------------------------------------------------------
(* CopyBuffer(netConn, LimitedReader(netTarget)).                          *)
DownDo(l) == down = l
DownTo(l) == down' = l
DownLeaves == <<kind, main, helper, up, sniffer, socks, ctxDone, done, errOpen,
                byteOpen, isStart, inUp, read, got, sbuf, logs>>

DownStart ==
    /\ DownDo("start")
    /\ \/ ctxDone /\ DownTo("send")
       \/ DownTo("read")
    /\ UNCHANGED <<DownLeaves, errCh, byteChan, isNotice, buf, inDown, replies,
                   taken, notice>>

(* The target's reply is made from what it has got by then. *)
DownRead ==
    /\ DownDo("read")
    /\ \/ /\ targetOpen
          /\ replies < MaxDown
          /\ replies' = replies + 1
          /\ inDown' = 1
       \/ /\ inDown' = 0
          /\ UNCHANGED replies
    /\ DownTo("write")
    /\ UNCHANGED <<DownLeaves, errCh, byteChan, isNotice, buf, taken, notice>>

(* The flow limit, then netConn.Write: the plain socket, or                *)
(* ReadWriterNotice.Write, which looks at isStart and goes on to the       *)
(* notice whether or not its socket took the bytes (inDown 0: it did not). *)
DownWrite ==
    /\ DownDo("write")
    /\ \/ /\ inDown # 0 /\ ~sniff /\ clientOpen
          /\ DownTo("start")
          /\ UNCHANGED inDown
       \/ /\ inDown # 0 /\ sniff /\ isStart
          /\ DownTo("cas")
          /\ \/ clientOpen /\ UNCHANGED inDown
             \/ inDown' = 0
       \/ /\ inDown = 0 \/ ~sniff \/ ~isStart \/ ctxDone
          /\ DownTo("send")
          /\ UNCHANGED inDown
    /\ UNCHANGED <<DownLeaves, errCh, byteChan, isNotice, buf, replies, taken, notice>>

AfterWrite == IF inDown = 0 THEN "send" ELSE "start"

(* isNotice.CompareAndSwap(false, true) *)
DownCas ==
    /\ DownDo("cas")
    /\ isNotice' = TRUE
    /\ DownTo(IF isNotice THEN AfterWrite ELSE "take")
    /\ UNCHANGED <<DownLeaves, errCh, byteChan, buf, inDown, replies, taken, notice>>

(* Under the lock: the buffer is taken, or Close has dropped it. *)
DownTake ==
    /\ DownDo("take")
    /\ taken' = buf
    /\ buf' = none
    /\ DownTo(IF buf = none THEN AfterWrite ELSE "notify")
    /\ UNCHANGED <<DownLeaves, errCh, byteChan, isNotice, inDown, replies, notice>>

(* fc(buf): byteChan <- buf *)
DownNotify ==
    /\ DownDo("notify")
    /\ byteChan = <<>>
    /\ byteChan' = <<taken>>
    /\ notice' = taken
    /\ taken' = none
    /\ DownTo(AfterWrite)
    /\ UNCHANGED <<DownLeaves, errCh, isNotice, buf, inDown, replies>>

DownSend ==
    /\ DownDo("send")
    /\ errCh < 2
    /\ errCh' = errCh + 1
    /\ inDown' = 0
    /\ DownTo("ended")
    /\ UNCHANGED <<DownLeaves, byteChan, isNotice, buf, replies, taken, notice>>

DownProgress ==
    \/ DownStart \/ DownWrite \/ DownCas \/ DownTake
    \/ DownNotify \/ DownSend
    \/ ~targetOpen /\ DownRead

-----------------------------------------------------------------------------
(* The sniffer: either the tunnel ends first, or it gets the buffer.       *)
SnifferSelect ==
    /\ sniffer = "select"
    /\ \/ /\ done
          /\ sniffer' = "ended"
          /\ UNCHANGED <<byteChan, sbuf>>
       \/ /\ byteChan # <<>>
          /\ sbuf' = Head(byteChan)
          /\ byteChan' = <<>>
          /\ sniffer' = "parse"
    /\ UNCHANGED <<kind, main, helper, up, down, socks, ctxDone, done, errCh,
                   errOpen, byteOpen, rwn, inUp, inDown, read, got, replies,
                   taken, notice, logs>>

(* The ClientHello's server name, else the Host of an HTTP request, else   *)
(* whatever looks like a domain; an empty buffer names none.               *)
SnifferParse ==
    /\ sniffer = "parse"
    /\ \/ sbuf # <<>> /\ \E d \in Domains : domain' = d
       \/ UNCHANGED domain
    /\ sbuf' = none
    /\ sniffer' = "ended"
    /\ UNCHANGED <<kind, main, helper, up, down, socks, ctxDone, chans, rwn, inUp,
                   inDown, read, got, replies, taken, notice, blackMap,
                   report, blackLog>>

-----------------------------------------------------------------------------
(* The handler's loop and its deferred calls.                              *)
MainDo(l) == main = l
MainTo(l) == main' = l

(* Mutant: the check logs the access and lets the tunnel run on. *)
OnTicker_OnlyLogs ==
    /\ MainDo("loop")
    /\ domain \in blackMap
    /\ blackLog' = TRUE
    /\ UNCHANGED <<kind, gor, socks, ctxDone, chans, rwn, data, domain, blackMap,
                   report>>

(* Every 30 s: the domain, known or sniffed, against the current list.     *)
OnTicker ==
    /\ MainDo("loop")
    /\ domain \in blackMap
    /\ blackLog' = TRUE
    /\ MainTo("closeDone")
    /\ UNCHANGED <<kind, helper, up, down, sniffer, socks, ctxDone, chans, rwn,
                   data, domain, blackMap, report>>

OnErr ==
    /\ MainDo("loop")
    /\ errCh > 0
    /\ errCh' = errCh - 1
    /\ MainTo("closeDone")
    /\ UNCHANGED <<kind, helper, up, down, sniffer, socks, ctxDone, done, errOpen,
                   byteChan, byteOpen, rwn, data, logs>>

OnContext ==
    /\ MainDo("loop")
    /\ ctxDone
    /\ MainTo("closeDone")
    /\ UNCHANGED <<kind, helper, up, down, sniffer, socks, ctxDone, chans, rwn,
                   data, logs>>

CloseDone ==
    /\ MainDo("closeDone")
    /\ done' = TRUE
    /\ MainTo(IF sniff THEN "closeStart" ELSE "closeClient")
    /\ UNCHANGED <<kind, helper, up, down, sniffer, socks, ctxDone, errCh, errOpen,
                   byteChan, byteOpen, rwn, data, logs>>

(* ReadWriterNotice.Close: isStart, the buffer, the socket. *)
CloseStart ==
    /\ MainDo("closeStart")
    /\ isStart' = FALSE
    /\ MainTo("dropBuf")
    /\ UNCHANGED <<kind, helper, up, down, sniffer, socks, ctxDone, chans,
                   isNotice, buf, data, logs>>

DropBuf ==
    /\ MainDo("dropBuf")
    /\ buf' = none
    /\ MainTo("closeClient")
    /\ UNCHANGED <<kind, helper, up, down, sniffer, socks, ctxDone, chans, isStart,
                   isNotice, data, logs>>

CloseClient ==
    /\ MainDo("closeClient")
    /\ clientOpen' = FALSE
    /\ MainTo("closeTarget")
    /\ UNCHANGED <<kind, helper, up, down, sniffer, targetOpen, ctxDone, chans,
                   rwn, data, logs>>

(* Mutant: the target's socket is left to the later deferred call. *)
CloseTarget_Later ==
    /\ MainDo("closeTarget")
    /\ MainTo("wait")
    /\ UNCHANGED <<kind, helper, up, down, sniffer, socks, ctxDone, chans, rwn,
                   data, logs>>

CloseTarget ==
    /\ MainDo("closeTarget")
    /\ targetOpen' = FALSE
    /\ MainTo("wait")
    /\ UNCHANGED <<kind, helper, up, down, sniffer, clientOpen, ctxDone, chans,
                   rwn, data, logs>>

Ended == up = "ended" /\ down = "ended" /\ sniffer = "ended"

(* Mutant: the handler does not wait. *)
WaitGroup_Skip ==
    /\ MainDo("wait")
    /\ report' = IF domain # none THEN domain ELSE Host
    /\ MainTo("closeChans")
    /\ UNCHANGED <<kind, helper, up, down, sniffer, socks, ctxDone, chans, rwn,
                   data, domain, blackMap, blackLog>>

(* wg.Wait(), then the access log with the domain or the host. *)
WaitGroup ==
    /\ MainDo("wait")
    /\ Ended
    /\ report' = IF domain # none THEN domain ELSE Host
    /\ MainTo("closeChans")
    /\ UNCHANGED <<kind, helper, up, down, sniffer, socks, ctxDone, chans, rwn,
                   data, domain, blackMap, blackLog>>

(* close(errCh), close(byteChan), deleteUserConnection *)
CloseChans ==
    /\ MainDo("closeChans")
    /\ errOpen' = FALSE
    /\ byteOpen' = FALSE
    /\ MainTo("returned")
    /\ UNCHANGED <<kind, helper, up, down, sniffer, socks, ctxDone, done, errCh,
                   byteChan, rwn, data, logs>>

(* Returning from the loop: what the deferred calls do, in their order. *)
TearDown ==
    \/ CloseDone \/ CloseStart \/ DropBuf \/ CloseClient \/ CloseTarget
    \/ WaitGroup \/ CloseChans

MainStep ==
    \/ ForwardRequest \/ Drained \/ Setup
    \/ OnTicker \/ OnErr \/ OnContext
    \/ TearDown

-----------------------------------------------------------------------------
(* A stop of the server, a disconnect event, a new blacklist.              *)
Cancel ==
    /\ ~ctxDone
    /\ ctxDone' = TRUE
    /\ UNCHANGED <<kind, gor, socks, chans, rwn, data, logs>>

(* Only the ticker of the loop looks at the list. *)
SetBlackMap(B) ==
    /\ main = "loop"
    /\ blackMap' = B
    /\ UNCHANGED <<kind, gor, socks, ctxDone, chans, rwn, data, domain, report,
                   blackLog>>

Next ==
    \/ MainStep
    \/ WatchContext
    \/ UpProgress \/ UpRead
    \/ DownProgress \/ DownRead
    \/ SnifferSelect \/ SnifferParse
    \/ Cancel
    \/ \E B \in SUBSET Domains : SetBlackMap(B)

Spec == Init /\ [][Next]_vars

(* Goroutines are scheduled, the ticker fires, socket writes return by     *)
(* their deadline at the latest.  Nothing obliges a peer to send.          *)
FairSpec ==
    /\ Spec
    /\ WF_vars(MainStep) /\ WF_vars(WatchContext)
    /\ WF_vars(UpProgress) /\ WF_vars(DownProgress)
    /\ WF_vars(SnifferSelect) /\ WF_vars(SnifferParse)
-----------------------------------------------------------------------------
(* The copies and the notice never send on a closed channel, which would   *)
(* panic outside any recover, and never wait for room in one, which nobody *)
(* would make once the loop is left: errCh has room for both results and   *)
(* byteChan for the only notice.                                           *)
SendsAreSafe ==
    /\ up = "send" \/ down = "send" => errOpen /\ errCh < 2
    /\ down = "notify" => byteOpen /\ byteChan = <<>>

(* What the sniffer gets is a prefix of the client's stream, without gap   *)
(* or repetition, however Read, Write and Close interleave; and it has all *)
(* that the target had when it first answered, so a whole ClientHello or   *)
(* request head.                                                           *)
SniffCoversRequest ==
    notice # none =>
       /\ notice = [i \in 1 .. Len(notice) |-> i]
       /\ got <= Len(notice)
       /\ Len(notice) <= read

(* The access log is written when nobody can change its facts any more: no *)
(* goroutine of the tunnel is left, both sockets are closed, and the log   *)
(* names the sniffed domain if there is one.                               *)
ReportIsFinal ==
    report # none =>
       /\ Ended
       /\ ~clientOpen /\ ~targetOpen
       /\ report = IF domain # none THEN domain ELSE Host

(* Once the loop is left, for whatever reason, the deferred calls finish:  *)
(* closing the sockets ends the copies, done or a notice the sniffer.  And *)
(* a stopped server or a disconnected user ends the tunnel, also while a   *)
(* plain request is still being forwarded.                                 *)
TearDownEnds == (ctxDone \/ main = "closeDone") ~> (main = "returned")

(* A domain that is on the blacklist when the ticker looks, known before   *)
(* or sniffed since, costs the client the tunnel.                          *)
BlacklistCuts ==
    (main = "loop" /\ domain # none) ~> (main # "loop" \/ domain \notin blackMap)
=============================================================================
