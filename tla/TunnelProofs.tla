---------------------------- MODULE TunnelProofs ----------------------------
(***************************************************************************)
(* Proofs about the way to a target: Tunnel, for any number of chunks each *)
(* way and any domains, and DialFailTracker, for any number of callers.    *)
(***************************************************************************)
EXTENDS Tunnel, DialFailTracker, FiniteSetTheorems, TLAPS

(* Which provers a leaf is given to, and for how long. *)
USE ZenonT(3), SMTT(30), ZenonT(30)

Before == {"forward", "drain", "drainErr", "setup"}

(* Where the goroutines, the sockets and the channels are at each stage of *)
(* the handler.                                                            *)
Control ==
    /\ main \in Before => up = "off"
    /\ up = "off" => /\ down = "off" /\ sniffer = "off"
                     /\ main \in Before \cup {"returned"}
                     /\ report = none
    /\ up # "off" => down # "off" /\ sniffer # "off"
    /\ main \in {"closeChans", "returned"} => Ended \/ up = "off"
    /\ main # "returned" => errOpen /\ byteOpen
    /\ main \in {"closeTarget", "wait", "closeChans", "returned"} => ~clientOpen
    /\ main \in {"wait", "closeChans", "returned"} => ~targetOpen
    /\ report # none => /\ main \in {"closeChans", "returned"}
                        /\ report = IF domain # none THEN domain ELSE Host

(* errCh holds at most the results of the copies that have ended. *)
Results ==
    /\ errCh \in 0 .. 2
    /\ up # "ended" /\ down # "ended" => errCh = 0
    /\ up # "ended" \/ down # "ended" => errCh <= 1

(* Whoever has swapped isNotice is the only one on the way to byteChan. *)
OneNotice ==
    /\ ~isNotice => byteChan = <<>> /\ notice = none
    /\ down \in {"take", "notify"} => isNotice /\ byteChan = <<>> /\ notice = none

-----------------------------------------------------------------------------
LEMMA ControlInvariant == Spec => []Control
<1>1. Init => Control
  BY DEF Init, Control, Ended, Before
<1>2. Control /\ [Next]_vars => Control'
  <2> SUFFICES ASSUME Control, [Next]_vars PROVE Control'
    OBVIOUS
  <2>1. CASE ForwardRequest
    BY <2>1 DEF Control, Ended, Before, ForwardRequest, kind, gor, socks, chans, rwn, data, logs
  <2>2. CASE WatchContext
    BY <2>2 DEF Control, Ended, Before, WatchContext, kind, gor, socks, chans, rwn, data, logs
  <2>3. CASE Drained
    BY <2>3 DEF Control, Ended, Before, Drained, kind, gor, socks, chans, rwn, data, logs
  <2>4. CASE Setup
    BY <2>4 DEF Control, Ended, Before, Setup, kind, gor, socks, chans, rwn, data, logs
  <2>5. CASE UpStart
    BY <2>5 DEF Control, Ended, Before, UpStart, UpDo, UpTo, UpLeaves, kind, gor, socks, chans, rwn, data, logs
  <2>6. CASE UpRead
    BY <2>6 DEF Control, Ended, Before, UpRead, UpDo, UpTo, UpLeaves, kind, gor, socks, chans, rwn, data, logs
  <2>7. CASE UpCheck
    BY <2>7 DEF Control, Ended, Before, UpCheck, UpDo, UpTo, UpLeaves, kind, gor, socks, chans, rwn, data, logs
  <2>8. CASE UpAppend
    BY <2>8 DEF Control, Ended, Before, UpAppend, UpDo, UpTo, UpLeaves, kind, gor, socks, chans, rwn, data, logs
  <2>9. CASE UpWrite
    BY <2>9 DEF Control, Ended, Before, UpWrite, UpDo, UpTo, UpLeaves, kind, gor, socks, chans, rwn, data, logs
  <2>10. CASE UpSend
    BY <2>10 DEF Control, Ended, Before, UpSend, UpDo, UpTo, UpLeaves, kind, gor, socks, chans, rwn, data, logs
  <2>11. CASE DownStart
    BY <2>11 DEF Control, Ended, Before, DownStart, DownDo, DownTo, DownLeaves, kind, gor, socks, chans, rwn, data, logs
  <2>12. CASE DownRead
    BY <2>12 DEF Control, Ended, Before, DownRead, DownDo, DownTo, DownLeaves, kind, gor, socks, chans, rwn, data, logs
  <2>13. CASE DownWrite
    BY <2>13 DEF Control, Ended, Before, DownWrite, DownDo, DownTo, DownLeaves, kind, gor, socks, chans, rwn, data, logs
  <2>14. CASE DownCas
    BY <2>14 DEF Control, Ended, Before, DownCas, DownDo, DownTo, DownLeaves, AfterWrite, kind, gor, socks, chans, rwn, data, logs
  <2>15. CASE DownTake
    BY <2>15 DEF Control, Ended, Before, DownTake, DownDo, DownTo, DownLeaves, AfterWrite, kind, gor, socks, chans, rwn, data, logs
  <2>16. CASE DownNotify
    BY <2>16 DEF Control, Ended, Before, DownNotify, DownDo, DownTo, DownLeaves, AfterWrite, kind, gor, socks, chans, rwn, data, logs
  <2>17. CASE DownSend
    BY <2>17 DEF Control, Ended, Before, DownSend, DownDo, DownTo, DownLeaves, kind, gor, socks, chans, rwn, data, logs
  <2>18. CASE SnifferSelect
    BY <2>18 DEF Control, Ended, Before, SnifferSelect, kind, gor, socks, chans, rwn, data, logs
  <2>19. CASE SnifferParse
    BY <2>19 DEF Control, Ended, Before, SnifferParse, kind, gor, socks, chans, rwn, data, logs
  <2>20. CASE OnTicker
    BY <2>20 DEF Control, Ended, Before, OnTicker, MainDo, MainTo, kind, gor, socks, chans, rwn, data, logs
  <2>21. CASE OnErr
    BY <2>21 DEF Control, Ended, Before, OnErr, MainDo, MainTo, kind, gor, socks, chans, rwn, data, logs
  <2>22. CASE OnContext
    BY <2>22 DEF Control, Ended, Before, OnContext, MainDo, MainTo, kind, gor, socks, chans, rwn, data, logs
  <2>23. CASE CloseDone
    BY <2>23 DEF Control, Ended, Before, CloseDone, MainDo, MainTo, kind, gor, socks, chans, rwn, data, logs
  <2>24. CASE CloseStart
    BY <2>24 DEF Control, Ended, Before, CloseStart, MainDo, MainTo, kind, gor, socks, chans, rwn, data, logs
  <2>25. CASE DropBuf
    BY <2>25 DEF Control, Ended, Before, DropBuf, MainDo, MainTo, kind, gor, socks, chans, rwn, data, logs
  <2>26. CASE CloseClient
    BY <2>26 DEF Control, Ended, Before, CloseClient, MainDo, MainTo, kind, gor, socks, chans, rwn, data, logs
  <2>27. CASE CloseTarget
    BY <2>27 DEF Control, Ended, Before, CloseTarget, MainDo, MainTo, kind, gor, socks, chans, rwn, data, logs
  <2>28. CASE WaitGroup
    BY <2>28 DEF Control, Ended, Before, WaitGroup, MainDo, MainTo, kind, gor, socks, chans, rwn, data, logs
  <2>29. CASE CloseChans
    BY <2>29 DEF Control, Ended, Before, CloseChans, MainDo, MainTo, kind, gor, socks, chans, rwn, data, logs
  <2>30. CASE Cancel
    BY <2>30 DEF Control, Ended, Before, Cancel, kind, gor, socks, chans, rwn, data, logs
  <2>31. ASSUME NEW B \in SUBSET Domains, SetBlackMap(B) PROVE Control'
    BY <2>31 DEF Control, Ended, Before, SetBlackMap, kind, gor, socks, chans, rwn, data, logs
  <2>32. CASE UNCHANGED vars
    BY <2>32 DEF Control, Ended, Before, vars, kind, gor, socks, chans, rwn, data, logs
  <2> QED
    BY <2>1, <2>2, <2>3, <2>4, <2>5, <2>6, <2>7, <2>8, <2>9, <2>10, <2>11, <2>12, <2>13, <2>14, <2>15, <2>16, <2>17, <2>18, <2>19, <2>20, <2>21, <2>22, <2>23, <2>24, <2>25, <2>26, <2>27, <2>28, <2>29, <2>30, <2>31, <2>32 DEF Next, MainStep, TearDown, UpProgress, DownProgress
<1> QED BY <1>1, <1>2, PTL DEF Spec

LEMMA ResultsInvariant == Spec => []Results
<1>1. Init => Results
  BY DEF Init, Results
<1>2. Results /\ Control /\ [Next]_vars => Results'
  <2> SUFFICES ASSUME Results, Control, [Next]_vars PROVE Results'
    OBVIOUS
  <2>1. CASE ForwardRequest
    BY <2>1 DEF Results, ForwardRequest, kind, gor, socks, chans, rwn, data, logs
  <2>2. CASE WatchContext
    BY <2>2 DEF Results, WatchContext, kind, gor, socks, chans, rwn, data, logs
  <2>3. CASE Drained
    BY <2>3 DEF Results, Drained, kind, gor, socks, chans, rwn, data, logs
  <2>4. CASE Setup
    BY <2>4 DEF Results, Control, Before, Setup, kind, gor, socks, chans, rwn, data, logs
  <2>5. CASE UpStart
    BY <2>5 DEF Results, UpStart, UpDo, UpTo, UpLeaves, kind, gor, socks, chans, rwn, data, logs
  <2>6. CASE UpRead
    BY <2>6 DEF Results, UpRead, UpDo, UpTo, UpLeaves, kind, gor, socks, chans, rwn, data, logs
  <2>7. CASE UpCheck
    BY <2>7 DEF Results, UpCheck, UpDo, UpTo, UpLeaves, kind, gor, socks, chans, rwn, data, logs
  <2>8. CASE UpAppend
    BY <2>8 DEF Results, UpAppend, UpDo, UpTo, UpLeaves, kind, gor, socks, chans, rwn, data, logs
  <2>9. CASE UpWrite
    BY <2>9 DEF Results, UpWrite, UpDo, UpTo, UpLeaves, kind, gor, socks, chans, rwn, data, logs
  <2>10. CASE UpSend
    BY <2>10 DEF Results, UpSend, UpDo, UpTo, UpLeaves, kind, gor, socks, chans, rwn, data, logs
  <2>11. CASE DownStart
    BY <2>11 DEF Results, DownStart, DownDo, DownTo, DownLeaves, kind, gor, socks, chans, rwn, data, logs
  <2>12. CASE DownRead
    BY <2>12 DEF Results, DownRead, DownDo, DownTo, DownLeaves, kind, gor, socks, chans, rwn, data, logs
  <2>13. CASE DownWrite
    BY <2>13 DEF Results, DownWrite, DownDo, DownTo, DownLeaves, kind, gor, socks, chans, rwn, data, logs
  <2>14. CASE DownCas
    BY <2>14 DEF Results, DownCas, DownDo, DownTo, DownLeaves, AfterWrite, kind, gor, socks, chans, rwn, data, logs
  <2>15. CASE DownTake
    BY <2>15 DEF Results, DownTake, DownDo, DownTo, DownLeaves, AfterWrite, kind, gor, socks, chans, rwn, data, logs
  <2>16. CASE DownNotify
    BY <2>16 DEF Results, DownNotify, DownDo, DownTo, DownLeaves, AfterWrite, kind, gor, socks, chans, rwn, data, logs
  <2>17. CASE DownSend
    BY <2>17 DEF Results, DownSend, DownDo, DownTo, DownLeaves, kind, gor, socks, chans, rwn, data, logs
  <2>18. CASE SnifferSelect
    BY <2>18 DEF Results, SnifferSelect, kind, gor, socks, chans, rwn, data, logs
  <2>19. CASE SnifferParse
    BY <2>19 DEF Results, SnifferParse, kind, gor, socks, chans, rwn, data, logs
  <2>20. CASE OnTicker
    BY <2>20 DEF Results, OnTicker, MainDo, MainTo, kind, gor, socks, chans, rwn, data, logs
  <2>21. CASE OnErr
    BY <2>21 DEF Results, OnErr, MainDo, MainTo, kind, gor, socks, chans, rwn, data, logs
  <2>22. CASE OnContext
    BY <2>22 DEF Results, OnContext, MainDo, MainTo, kind, gor, socks, chans, rwn, data, logs
  <2>23. CASE CloseDone
    BY <2>23 DEF Results, CloseDone, MainDo, MainTo, kind, gor, socks, chans, rwn, data, logs
  <2>24. CASE CloseStart
    BY <2>24 DEF Results, CloseStart, MainDo, MainTo, kind, gor, socks, chans, rwn, data, logs
  <2>25. CASE DropBuf
    BY <2>25 DEF Results, DropBuf, MainDo, MainTo, kind, gor, socks, chans, rwn, data, logs
  <2>26. CASE CloseClient
    BY <2>26 DEF Results, CloseClient, MainDo, MainTo, kind, gor, socks, chans, rwn, data, logs
  <2>27. CASE CloseTarget
    BY <2>27 DEF Results, CloseTarget, MainDo, MainTo, kind, gor, socks, chans, rwn, data, logs
  <2>28. CASE WaitGroup
    BY <2>28 DEF Results, WaitGroup, MainDo, MainTo, kind, gor, socks, chans, rwn, data, logs
  <2>29. CASE CloseChans
    BY <2>29 DEF Results, CloseChans, MainDo, MainTo, kind, gor, socks, chans, rwn, data, logs
  <2>30. CASE Cancel
    BY <2>30 DEF Results, Cancel, kind, gor, socks, chans, rwn, data, logs
  <2>31. ASSUME NEW B \in SUBSET Domains, SetBlackMap(B) PROVE Results'
    BY <2>31 DEF Results, SetBlackMap, kind, gor, socks, chans, rwn, data, logs
  <2>32. CASE UNCHANGED vars
    BY <2>32 DEF Results, vars, kind, gor, socks, chans, rwn, data, logs
  <2> QED
    BY <2>1, <2>2, <2>3, <2>4, <2>5, <2>6, <2>7, <2>8, <2>9, <2>10, <2>11, <2>12, <2>13, <2>14, <2>15, <2>16, <2>17, <2>18, <2>19, <2>20, <2>21, <2>22, <2>23, <2>24, <2>25, <2>26, <2>27, <2>28, <2>29, <2>30, <2>31, <2>32 DEF Next, MainStep, TearDown, UpProgress, DownProgress
<1> QED BY <1>1, <1>2, ControlInvariant, PTL DEF Spec

LEMMA OneNoticeInvariant == Spec => []OneNotice
<1>1. Init => OneNotice
  BY DEF Init, OneNotice
<1>2. OneNotice /\ Control /\ [Next]_vars => OneNotice'
  <2> SUFFICES ASSUME OneNotice, Control, [Next]_vars PROVE OneNotice'
    OBVIOUS
  <2>1. CASE ForwardRequest
    BY <2>1 DEF OneNotice, ForwardRequest, kind, gor, socks, chans, rwn, data, logs
  <2>2. CASE WatchContext
    BY <2>2 DEF OneNotice, WatchContext, kind, gor, socks, chans, rwn, data, logs
  <2>3. CASE Drained
    BY <2>3 DEF OneNotice, Drained, kind, gor, socks, chans, rwn, data, logs
  <2>4. CASE Setup
    BY <2>4 DEF OneNotice, Setup, kind, gor, socks, chans, rwn, data, logs
  <2>5. CASE UpStart
    BY <2>5 DEF OneNotice, UpStart, UpDo, UpTo, UpLeaves, kind, gor, socks, chans, rwn, data, logs
  <2>6. CASE UpRead
    BY <2>6 DEF OneNotice, UpRead, UpDo, UpTo, UpLeaves, kind, gor, socks, chans, rwn, data, logs
  <2>7. CASE UpCheck
    BY <2>7 DEF OneNotice, UpCheck, UpDo, UpTo, UpLeaves, kind, gor, socks, chans, rwn, data, logs
  <2>8. CASE UpAppend
    BY <2>8 DEF OneNotice, UpAppend, UpDo, UpTo, UpLeaves, kind, gor, socks, chans, rwn, data, logs
  <2>9. CASE UpWrite
    BY <2>9 DEF OneNotice, UpWrite, UpDo, UpTo, UpLeaves, kind, gor, socks, chans, rwn, data, logs
  <2>10. CASE UpSend
    BY <2>10 DEF OneNotice, UpSend, UpDo, UpTo, UpLeaves, kind, gor, socks, chans, rwn, data, logs
  <2>11. CASE DownStart
    BY <2>11 DEF OneNotice, DownStart, DownDo, DownTo, DownLeaves, kind, gor, socks, chans, rwn, data, logs
  <2>12. CASE DownRead
    BY <2>12 DEF OneNotice, DownRead, DownDo, DownTo, DownLeaves, kind, gor, socks, chans, rwn, data, logs
  <2>13. CASE DownWrite
    BY <2>13 DEF OneNotice, DownWrite, DownDo, DownTo, DownLeaves, kind, gor, socks, chans, rwn, data, logs
  <2>14. CASE DownCas
    BY <2>14 DEF OneNotice, DownCas, DownDo, DownTo, DownLeaves, AfterWrite, kind, gor, socks, chans, rwn, data, logs
  <2>15. CASE DownTake
    BY <2>15 DEF OneNotice, DownTake, DownDo, DownTo, DownLeaves, AfterWrite, kind, gor, socks, chans, rwn, data, logs
  <2>16. CASE DownNotify
    BY <2>16 DEF OneNotice, DownNotify, DownDo, DownTo, DownLeaves, AfterWrite, kind, gor, socks, chans, rwn, data, logs
  <2>17. CASE DownSend
    BY <2>17 DEF OneNotice, DownSend, DownDo, DownTo, DownLeaves, kind, gor, socks, chans, rwn, data, logs
  <2>18. CASE SnifferSelect
    BY <2>18 DEF OneNotice, SnifferSelect, kind, gor, socks, chans, rwn, data, logs
  <2>19. CASE SnifferParse
    BY <2>19 DEF OneNotice, SnifferParse, kind, gor, socks, chans, rwn, data, logs
  <2>20. CASE OnTicker
    BY <2>20 DEF OneNotice, OnTicker, MainDo, MainTo, kind, gor, socks, chans, rwn, data, logs
  <2>21. CASE OnErr
    BY <2>21 DEF OneNotice, OnErr, MainDo, MainTo, kind, gor, socks, chans, rwn, data, logs
  <2>22. CASE OnContext
    BY <2>22 DEF OneNotice, OnContext, MainDo, MainTo, kind, gor, socks, chans, rwn, data, logs
  <2>23. CASE CloseDone
    BY <2>23 DEF OneNotice, CloseDone, MainDo, MainTo, kind, gor, socks, chans, rwn, data, logs
  <2>24. CASE CloseStart
    BY <2>24 DEF OneNotice, CloseStart, MainDo, MainTo, kind, gor, socks, chans, rwn, data, logs
  <2>25. CASE DropBuf
    BY <2>25 DEF OneNotice, DropBuf, MainDo, MainTo, kind, gor, socks, chans, rwn, data, logs
  <2>26. CASE CloseClient
    BY <2>26 DEF OneNotice, CloseClient, MainDo, MainTo, kind, gor, socks, chans, rwn, data, logs
  <2>27. CASE CloseTarget
    BY <2>27 DEF OneNotice, CloseTarget, MainDo, MainTo, kind, gor, socks, chans, rwn, data, logs
  <2>28. CASE WaitGroup
    BY <2>28 DEF OneNotice, WaitGroup, MainDo, MainTo, kind, gor, socks, chans, rwn, data, logs
  <2>29. CASE CloseChans
    BY <2>29 DEF OneNotice, CloseChans, MainDo, MainTo, kind, gor, socks, chans, rwn, data, logs
  <2>30. CASE Cancel
    BY <2>30 DEF OneNotice, Cancel, kind, gor, socks, chans, rwn, data, logs
  <2>31. ASSUME NEW B \in SUBSET Domains, SetBlackMap(B) PROVE OneNotice'
    BY <2>31 DEF OneNotice, SetBlackMap, kind, gor, socks, chans, rwn, data, logs
  <2>32. CASE UNCHANGED vars
    BY <2>32 DEF OneNotice, vars, kind, gor, socks, chans, rwn, data, logs
  <2> QED
    BY <2>1, <2>2, <2>3, <2>4, <2>5, <2>6, <2>7, <2>8, <2>9, <2>10, <2>11, <2>12, <2>13, <2>14, <2>15, <2>16, <2>17, <2>18, <2>19, <2>20, <2>21, <2>22, <2>23, <2>24, <2>25, <2>26, <2>27, <2>28, <2>29, <2>30, <2>31, <2>32 DEF Next, MainStep, TearDown, UpProgress, DownProgress
<1> QED BY <1>1, <1>2, ControlInvariant, PTL DEF Spec

(* No goroutine of a tunnel sends on a closed channel or waits for room in *)
(* one, however many chunks pass and however the goroutines interleave.    *)
THEOREM ChannelSafety == Spec => []SendsAreSafe
<1>1. Control /\ Results /\ OneNotice => SendsAreSafe
  BY DEF Control, Ended, Before, Results, OneNotice, SendsAreSafe
<1> QED BY <1>1, ControlInvariant, ResultsInvariant, OneNoticeInvariant, PTL

(* The access log of a tunnel is written when all its goroutines have      *)
(* ended and both sockets are closed, with the domain they left behind.    *)
THEOREM FinalReport == Spec => []ReportIsFinal
<1>1. Control => ReportIsFinal
  BY DEF Control, Ended, Before, ReportIsFinal
<1> QED BY <1>1, ControlInvariant, PTL
-----------------------------------------------------------------------------
Iota(n) == [i \in 1 .. n |-> i]

(* b is a prefix of what was read and has what the target answered to. *)
Covers(b) ==
    /\ b \in Seq(Nat)
    /\ b = Iota(Len(b))
    /\ got <= Len(b) /\ Len(b) <= read

(* The chunks of the stream: until isNotice is set, and by a Read that     *)
(* looked before, every chunk read is collected before it is passed on.    *)
Stream ==
    /\ read \in Nat /\ got \in Nat /\ replies \in Nat /\ inUp \in Nat
    /\ up = "off" => read = 0 /\ got = 0 /\ inUp = 0 /\ ~isNotice
    /\ up \in {"check", "append", "write"} => inUp \in {0, read}
    /\ up \notin {"check", "append", "write", "send"} => inUp = 0
    /\ got <= read
    /\ up \in {"check", "append", "write"} /\ inUp # 0 /\ replies = 0 => got + 1 <= read
    /\ isNotice \/ inDown # 0 \/ down = "cas" => replies > 0

Collected ==
    /\ buf # none => /\ sniff /\ Covers(buf)
                     /\ ~isNotice \/ up = "append" =>
                           Len(buf) = IF up \in {"check", "append"} /\ inUp # 0
                                        THEN read - 1 ELSE read
    /\ taken # none => isNotice /\ Covers(taken)
    /\ notice # none => isNotice /\ Covers(notice)

LEMMA IotaFacts ==
  ASSUME NEW n \in Nat
  PROVE  /\ Iota(n) \in Seq(Nat)
         /\ Len(Iota(n)) = n
         /\ Append(Iota(n), n + 1) = Iota(n + 1)
<1>1. Iota(n) \in Seq(Nat) /\ Len(Iota(n)) = n
  BY DEF Iota
<1>2. Append(Iota(n), n + 1) = Iota(n + 1)
  BY DEF Iota
<1> QED BY <1>1, <1>2

LEMMA StreamInvariant == Spec => []Stream
<1>1. Init => Stream
  BY DEF Init, Stream
<1>2. Stream /\ Control /\ [Next]_vars => Stream'
  <2> SUFFICES ASSUME Stream, Control, [Next]_vars PROVE Stream'
    OBVIOUS
  <2>1. CASE ForwardRequest
    BY <2>1 DEF Stream, ForwardRequest, kind, gor, socks, chans, rwn, data, logs
  <2>2. CASE WatchContext
    BY <2>2 DEF Stream, WatchContext, kind, gor, socks, chans, rwn, data, logs
  <2>3. CASE Drained
    BY <2>3 DEF Stream, Drained, kind, gor, socks, chans, rwn, data, logs
  <2>4. CASE Setup
    BY <2>4 DEF Stream, Control, Before, Setup, kind, gor, socks, chans, rwn, data, logs
  <2>5. CASE UpStart
    BY <2>5 DEF Stream, UpStart, UpDo, UpTo, UpLeaves, kind, gor, socks, chans, rwn, data, logs
  <2>6. CASE UpRead
    BY <2>6 DEF Stream, UpRead, UpDo, UpTo, UpLeaves, kind, gor, socks, chans, rwn, data, logs
  <2>7. CASE UpCheck
    BY <2>7 DEF Stream, UpCheck, UpDo, UpTo, UpLeaves, kind, gor, socks, chans, rwn, data, logs
  <2>8. CASE UpAppend
    BY <2>8 DEF Stream, UpAppend, UpDo, UpTo, UpLeaves, kind, gor, socks, chans, rwn, data, logs
  <2>9. CASE UpWrite
    BY <2>9 DEF Stream, UpWrite, UpDo, UpTo, UpLeaves, kind, gor, socks, chans, rwn, data, logs
  <2>10. CASE UpSend
    BY <2>10 DEF Stream, UpSend, UpDo, UpTo, UpLeaves, kind, gor, socks, chans, rwn, data, logs
  <2>11. CASE DownStart
    BY <2>11 DEF Stream, DownStart, DownDo, DownTo, DownLeaves, kind, gor, socks, chans, rwn, data, logs
  <2>12. CASE DownRead
    BY <2>12 DEF Stream, DownRead, DownDo, DownTo, DownLeaves, kind, gor, socks, chans, rwn, data, logs
  <2>13. CASE DownWrite
    BY <2>13 DEF Stream, DownWrite, DownDo, DownTo, DownLeaves, kind, gor, socks, chans, rwn, data, logs
  <2>14. CASE DownCas
    BY <2>14 DEF Stream, Control, Before, DownCas, DownDo, DownTo, DownLeaves, AfterWrite, kind, gor, socks, chans, rwn, data, logs
  <2>15. CASE DownTake
    BY <2>15 DEF Stream, DownTake, DownDo, DownTo, DownLeaves, AfterWrite, kind, gor, socks, chans, rwn, data, logs
  <2>16. CASE DownNotify
    BY <2>16 DEF Stream, DownNotify, DownDo, DownTo, DownLeaves, AfterWrite, kind, gor, socks, chans, rwn, data, logs
  <2>17. CASE DownSend
    BY <2>17 DEF Stream, DownSend, DownDo, DownTo, DownLeaves, kind, gor, socks, chans, rwn, data, logs
  <2>18. CASE SnifferSelect
    BY <2>18 DEF Stream, SnifferSelect, kind, gor, socks, chans, rwn, data, logs
  <2>19. CASE SnifferParse
    BY <2>19 DEF Stream, SnifferParse, kind, gor, socks, chans, rwn, data, logs
  <2>20. CASE OnTicker
    BY <2>20 DEF Stream, OnTicker, MainDo, MainTo, kind, gor, socks, chans, rwn, data, logs
  <2>21. CASE OnErr
    BY <2>21 DEF Stream, OnErr, MainDo, MainTo, kind, gor, socks, chans, rwn, data, logs
  <2>22. CASE OnContext
    BY <2>22 DEF Stream, OnContext, MainDo, MainTo, kind, gor, socks, chans, rwn, data, logs
  <2>23. CASE CloseDone
    BY <2>23 DEF Stream, CloseDone, MainDo, MainTo, kind, gor, socks, chans, rwn, data, logs
  <2>24. CASE CloseStart
    BY <2>24 DEF Stream, CloseStart, MainDo, MainTo, kind, gor, socks, chans, rwn, data, logs
  <2>25. CASE DropBuf
    BY <2>25 DEF Stream, DropBuf, MainDo, MainTo, kind, gor, socks, chans, rwn, data, logs
  <2>26. CASE CloseClient
    BY <2>26 DEF Stream, CloseClient, MainDo, MainTo, kind, gor, socks, chans, rwn, data, logs
  <2>27. CASE CloseTarget
    BY <2>27 DEF Stream, CloseTarget, MainDo, MainTo, kind, gor, socks, chans, rwn, data, logs
  <2>28. CASE WaitGroup
    BY <2>28 DEF Stream, WaitGroup, MainDo, MainTo, kind, gor, socks, chans, rwn, data, logs
  <2>29. CASE CloseChans
    BY <2>29 DEF Stream, CloseChans, MainDo, MainTo, kind, gor, socks, chans, rwn, data, logs
  <2>30. CASE Cancel
    BY <2>30 DEF Stream, Cancel, kind, gor, socks, chans, rwn, data, logs
  <2>31. ASSUME NEW B \in SUBSET Domains, SetBlackMap(B) PROVE Stream'
    BY <2>31 DEF Stream, SetBlackMap, kind, gor, socks, chans, rwn, data, logs
  <2>32. CASE UNCHANGED vars
    BY <2>32 DEF Stream, vars, kind, gor, socks, chans, rwn, data, logs
  <2> QED
    BY <2>1, <2>2, <2>3, <2>4, <2>5, <2>6, <2>7, <2>8, <2>9, <2>10, <2>11, <2>12, <2>13, <2>14, <2>15, <2>16, <2>17, <2>18, <2>19, <2>20, <2>21, <2>22, <2>23, <2>24, <2>25, <2>26, <2>27, <2>28, <2>29, <2>30, <2>31, <2>32 DEF Next, MainStep, TearDown, UpProgress, DownProgress
<1> QED BY <1>1, <1>2, ControlInvariant, PTL DEF Spec

LEMMA CollectedInvariant == Spec => []Collected
<1>1. Init => Collected
  BY DEF Init, Collected
<1>2. Collected /\ Stream /\ OneNotice /\ Control /\ [Next]_vars => Collected'
  <2> SUFFICES ASSUME Collected, Stream, OneNotice, Control, [Next]_vars PROVE Collected'
    OBVIOUS
  <2>1. CASE ForwardRequest
    BY <2>1 DEF Collected, Stream, Covers, ForwardRequest, kind, gor, socks, chans, rwn, data, logs
  <2>2. CASE WatchContext
    BY <2>2 DEF Collected, Stream, Covers, WatchContext, kind, gor, socks, chans, rwn, data, logs
  <2>3. CASE Drained
    BY <2>3 DEF Collected, Stream, Covers, Drained, kind, gor, socks, chans, rwn, data, logs
  <2>4. CASE Setup
    <3>1. <<>> = Iota(Len(<<>>)) /\ <<>> \in Seq(Nat) /\ Len(<<>>) = 0
      BY DEF Iota
    <3>2. up = "off"
      BY <2>4 DEF Setup, Control, Before
    <3> QED BY <2>4, <3>1, <3>2 DEF Collected, Stream, Covers, Setup, kind, gor, socks, chans, rwn, data, logs
  <2>5. CASE UpStart
    BY <2>5 DEF Collected, Stream, Covers, UpStart, UpDo, UpTo, UpLeaves, kind, gor, socks, chans, rwn, data, logs
  <2>6. CASE UpRead
    BY <2>6 DEF Collected, Stream, Covers, UpRead, UpDo, UpTo, UpLeaves, kind, gor, socks, chans, rwn, data, logs
  <2>7. CASE UpCheck
    BY <2>7 DEF Collected, Stream, Covers, UpCheck, UpDo, UpTo, UpLeaves, kind, gor, socks, chans, rwn, data, logs
  <2>8. CASE UpAppend
    <3>1. CASE buf # none /\ inUp # 0
      <4>1. inUp = Len(buf) + 1 /\ Len(buf) \in Nat
        BY <2>8, <3>1 DEF UpAppend, UpDo, Collected, Stream, Covers
      <4>2. buf' = Iota(Len(buf) + 1)
        BY <2>8, <3>1, <4>1, IotaFacts DEF UpAppend, Collected, Covers
      <4>3. Len(buf') = Len(buf) + 1 /\ buf' \in Seq(Nat)
        BY <4>1, <4>2, IotaFacts
      <4>4. Covers(buf)' /\ Len(buf') = read
        BY <2>8, <3>1, <4>1, <4>2, <4>3 DEF UpAppend, UpDo, UpLeaves, Collected, Stream, Covers
      <4>5. buf' # none => sniff' /\ Covers(buf)' /\ Len(buf') = read'
        BY <2>8, <3>1, <4>4 DEF UpAppend, UpLeaves, Collected, kind
      <4>6. up' = "write"
        BY <2>8 DEF UpAppend, UpTo
      <4>7. taken' = taken /\ notice' = notice /\ isNotice' = isNotice /\ got' = got /\ read' = read
        BY <2>8 DEF UpAppend, UpLeaves
      <4> QED
        BY <4>5, <4>6, <4>7 DEF Collected, Covers
    <3>2. CASE ~(buf # none /\ inUp # 0)
      BY <2>8, <3>2 DEF Collected, Stream, Covers, UpAppend, UpDo, UpTo, UpLeaves, kind
    <3> QED BY <3>1, <3>2
  <2>9. CASE UpWrite
    BY <2>9 DEF Collected, Stream, Covers, UpWrite, UpDo, UpTo, UpLeaves, kind, gor, socks, chans, rwn, data, logs
  <2>10. CASE UpSend
    BY <2>10 DEF Collected, Stream, Covers, UpSend, UpDo, UpTo, UpLeaves, kind, gor, socks, chans, rwn, data, logs
  <2>11. CASE DownStart
    BY <2>11 DEF Collected, Stream, Covers, DownStart, DownDo, DownTo, DownLeaves, kind, gor, socks, chans, rwn, data, logs
  <2>12. CASE DownRead
    BY <2>12 DEF Collected, Stream, Covers, DownRead, DownDo, DownTo, DownLeaves, kind, gor, socks, chans, rwn, data, logs
  <2>13. CASE DownWrite
    BY <2>13 DEF Collected, Stream, Covers, DownWrite, DownDo, DownTo, DownLeaves, kind, gor, socks, chans, rwn, data, logs
  <2>14. CASE DownCas
    BY <2>14 DEF Collected, Stream, Covers, DownCas, DownDo, DownTo, DownLeaves, AfterWrite, kind, gor, socks, chans, rwn, data, logs
  <2>15. CASE DownTake
    BY <2>15 DEF Collected, Stream, Covers, OneNotice, DownTake, DownDo, DownTo, DownLeaves, AfterWrite, kind, gor, socks, chans, rwn, data, logs
  <2>16. CASE DownNotify
    BY <2>16 DEF Collected, Stream, Covers, DownNotify, DownDo, DownTo, DownLeaves, AfterWrite, kind, gor, socks, chans, rwn, data, logs
  <2>17. CASE DownSend
    BY <2>17 DEF Collected, Stream, Covers, DownSend, DownDo, DownTo, DownLeaves, kind, gor, socks, chans, rwn, data, logs
  <2>18. CASE SnifferSelect
    BY <2>18 DEF Collected, Stream, Covers, SnifferSelect, kind, gor, socks, chans, rwn, data, logs
  <2>19. CASE SnifferParse
    BY <2>19 DEF Collected, Stream, Covers, SnifferParse, kind, gor, socks, chans, rwn, data, logs
  <2>20. CASE OnTicker
    BY <2>20 DEF Collected, Stream, Covers, OnTicker, MainDo, MainTo, kind, gor, socks, chans, rwn, data, logs
  <2>21. CASE OnErr
    BY <2>21 DEF Collected, Stream, Covers, OnErr, MainDo, MainTo, kind, gor, socks, chans, rwn, data, logs
  <2>22. CASE OnContext
    BY <2>22 DEF Collected, Stream, Covers, OnContext, MainDo, MainTo, kind, gor, socks, chans, rwn, data, logs
  <2>23. CASE CloseDone
    BY <2>23 DEF Collected, Stream, Covers, CloseDone, MainDo, MainTo, kind, gor, socks, chans, rwn, data, logs
  <2>24. CASE CloseStart
    BY <2>24 DEF Collected, Stream, Covers, CloseStart, MainDo, MainTo, kind, gor, socks, chans, rwn, data, logs
  <2>25. CASE DropBuf
    BY <2>25 DEF Collected, Stream, Covers, DropBuf, MainDo, MainTo, kind, gor, socks, chans, rwn, data, logs
  <2>26. CASE CloseClient
    BY <2>26 DEF Collected, Stream, Covers, CloseClient, MainDo, MainTo, kind, gor, socks, chans, rwn, data, logs
  <2>27. CASE CloseTarget
    BY <2>27 DEF Collected, Stream, Covers, CloseTarget, MainDo, MainTo, kind, gor, socks, chans, rwn, data, logs
  <2>28. CASE WaitGroup
    BY <2>28 DEF Collected, Stream, Covers, WaitGroup, MainDo, MainTo, kind, gor, socks, chans, rwn, data, logs
  <2>29. CASE CloseChans
    BY <2>29 DEF Collected, Stream, Covers, CloseChans, MainDo, MainTo, kind, gor, socks, chans, rwn, data, logs
  <2>30. CASE Cancel
    BY <2>30 DEF Collected, Stream, Covers, Cancel, kind, gor, socks, chans, rwn, data, logs
  <2>31. ASSUME NEW B \in SUBSET Domains, SetBlackMap(B) PROVE Collected'
    BY <2>31 DEF Collected, Stream, Covers, SetBlackMap, kind, gor, socks, chans, rwn, data, logs
  <2>32. CASE UNCHANGED vars
    BY <2>32 DEF Collected, Stream, Covers, vars, kind, gor, socks, chans, rwn, data, logs
  <2> QED
    BY <2>1, <2>2, <2>3, <2>4, <2>5, <2>6, <2>7, <2>8, <2>9, <2>10, <2>11, <2>12, <2>13, <2>14, <2>15, <2>16, <2>17, <2>18, <2>19, <2>20, <2>21, <2>22, <2>23, <2>24, <2>25, <2>26, <2>27, <2>28, <2>29, <2>30, <2>31, <2>32 DEF Next, MainStep, TearDown, UpProgress, DownProgress
<1> QED BY <1>1, <1>2, StreamInvariant, OneNoticeInvariant, ControlInvariant, PTL DEF Spec

(* The sniffer gets a gapless prefix of the client's stream that holds all *)
(* the target had when it first answered, for streams of any length.       *)
THEOREM SniffPrefix == Spec => []SniffCoversRequest
<1>1. Collected => SniffCoversRequest
  BY DEF Collected, Covers, Iota, SniffCoversRequest
<1> QED BY <1>1, CollectedInvariant, PTL

-----------------------------------------------------------------------------
(* Dials that fail.                                                        *)
(*                                                                         *)
(* However the atomic steps of RecordDialFailConnection interleave, no     *)
(* failure is counted twice.  Each failure is either still on its way      *)
(* through the call that records it or is in at most one count once, so a  *)
(* count and the calls on their way are together at most the failures      *)
(* recorded (NoneTwice).  As long as calls do not overlap, the count is    *)
(* also at most the failures of its own window (Windows).                  *)

(* The callers whose failure has not reached a count. *)
Pending == {c \in Callers : pc[c] \in {"lookup", "load", "swap", "reset", "add"}}

NoneTwice ==
    /\ \A s \in Stats : failCount[s] + Cardinality(Pending) <= total
    /\ Cardinality(Pending) <= total
    /\ \A c \in Callers : pc[c] = "ban" => total > threshold
    /\ black # 0 => total > threshold

(* What a caller holds at each stage. *)
Local ==
    \A c \in Callers :
       /\ pc[c] \in {"load", "swap", "reset", "add", "ban"} => stats[c] \in Stats
       /\ attempt[c] \in 0 .. maxAttempts
       /\ pc[c] = "swap" => attempt[c] < maxAttempts

IInv == TypeOK /\ Local /\ NoneTwice

(* What the only caller at work knows: its failure is the last one         *)
(* recorded, and the count does not include it before Reset or Add.        *)
AtWork(c) ==
    /\ total >= 1 /\ now[c] = when[total] /\ now[c] <= clock
    /\ pc[c] # "lookup" => stats[c] = entry
    /\ pc[c] \in {"lookup", "load", "swap", "add"} /\ entry # nil =>
          failCount[entry] <= FailuresIn(firstConnTime[entry], total - 1)
    /\ pc[c] = "add" => now[c] <= firstConnTime[entry] + windowTime
    /\ pc[c] = "reset" => now[c] = firstConnTime[entry]
    /\ pc[c] = "ban" => failCount[entry] > threshold
    /\ entry # nil => firstConnTime[entry] <= now[c]

(* The count of the entry when no failure is on its way to it. *)
EntryCounted ==
    entry # nil =>
       /\ firstConnTime[entry] <= clock
       /\ Pending = {} => failCount[entry] <= FailuresIn(firstConnTime[entry], total)

OneByOne ==
    /\ \A c, d \in Callers : pc[c] # "idle" /\ pc[d] # "idle" => c = d
    /\ \A c \in Callers : pc[c] # "idle" => AtWork(c)
    /\ EntryCounted
    /\ BlacklistJustified

Windows == ~overlapped => OneByOne

-----------------------------------------------------------------------------
LEMMA Counted ==
    /\ IsFiniteSet(Pending) /\ Cardinality(Pending) \in Nat
    /\ \A c \in Pending : Cardinality(Pending \ {c}) = Cardinality(Pending) - 1
    /\ \A c \in Callers \ Pending : Cardinality(Pending \cup {c}) = Cardinality(Pending) + 1
<1>1. IsFiniteSet(Pending)
  BY TrackerAssumption, FS_Subset DEF Pending
<1>2. Cardinality(Pending) \in Nat
  BY <1>1, FS_CardinalityType
<1>3. \A c \in Pending : Cardinality(Pending \ {c}) = Cardinality(Pending) - 1
  BY <1>1, FS_RemoveElement
<1>4. \A c \in Callers \ Pending : Cardinality(Pending \cup {c}) = Cardinality(Pending) + 1
  BY <1>1, FS_AddElement
<1> QED BY <1>1, <1>2, <1>3, <1>4

LEMMA Types == ASSUME TypeOK, Local, [NextTracker]_trackerVars PROVE (TypeOK /\ Local)'
<1> USE TrackerAssumption
<1>1. ASSUME NEW c \in Callers, Record(c) PROVE (TypeOK /\ Local)'
  <2>1. overlapped' \in BOOLEAN
    BY <1>1, Zenon DEF Record, TypeOK
  <2>2. now' \in [Callers -> 0 .. MaxTime] /\ total' \in 0 .. MaxCalls
    BY <1>1 DEF Record, TypeOK
  <2>3. when' \in [1 .. MaxCalls -> 0 .. MaxTime]
    BY <1>1 DEF Record, TypeOK
  <2>4. TypeOK'
    BY <1>1, <2>1, <2>2, <2>3 DEF Record, Goto, TypeOK
  <2>5. Local'
    BY <1>1 DEF Record, Goto, TypeOK, Local
  <2> QED BY <2>4, <2>5
<1>2. ASSUME NEW c \in Callers, NewEntry(c) PROVE (TypeOK /\ Local)'
  <2>1. PICK s \in Stats : /\ entry' = s
                           /\ failCount' = [failCount EXCEPT ![s] = 1]
                           /\ firstConnTime' = [firstConnTime EXCEPT ![s] = now[c]]
    BY <1>2 DEF NewEntry
  <2>2. expiry' \in Nat
    <3>1. expiry' = clock + dialFailCacheTTL
      BY <1>2 DEF NewEntry
    <3> QED BY <3>1 DEF TypeOK
  <2>3. failCount' \in [Stats -> Nat] /\ firstConnTime' \in [Stats -> 0 .. MaxTime]
    BY <2>1 DEF TypeOK
  <2>4. TypeOK'
    BY <1>2, <2>1, <2>2, <2>3 DEF NewEntry, Goto, locals, history, TypeOK
  <2>5. Local'
    BY <1>2 DEF NewEntry, Goto, locals, TypeOK, Local
  <2> QED BY <2>4, <2>5
<1>3. ASSUME NEW c \in Callers, OldEntry(c) PROVE (TypeOK /\ Local)'
  <2>1. entry \in Stats
    BY <1>3 DEF OldEntry, Cached, TypeOK
  <2> QED BY <1>3, <2>1 DEF TypeOK, Local, OldEntry, Goto, locals, history
<1>4. ASSUME NEW c \in Callers, Load(c) PROVE (TypeOK /\ Local)'
  BY <1>4 DEF TypeOK, Local, Load, Goto, Return, locals, history
<1>5. ASSUME NEW c \in Callers, GiveUp(c) PROVE (TypeOK /\ Local)'
  BY <1>5 DEF TypeOK, Local, GiveUp, Goto, Return, locals, history
<1>6. ASSUME NEW c \in Callers, Swap(c) PROVE (TypeOK /\ Local)'
  <2>1. firstConnTime' \in [Stats -> 0 .. MaxTime]
    BY <1>6 DEF Swap, TypeOK, Local
  <2>2. attempt' \in [Callers -> 0 .. maxAttempts]
    <3>1. /\ attempt \in [Callers -> 0 .. maxAttempts]
          /\ attempt[c] \in 0 .. maxAttempts /\ attempt[c] < maxAttempts
      BY <1>6 DEF Swap, TypeOK, Local
    <3>2. attempt' = attempt \/ attempt' = [attempt EXCEPT ![c] = attempt[c] + 1]
      BY <1>6 DEF Swap
    <3>3. attempt[c] + 1 \in 0 .. maxAttempts
      BY <3>1
    <3> QED BY <3>1, <3>2, <3>3
  <2>3. TypeOK'
    BY <1>6, <2>1, <2>2 DEF Swap, Goto, history, TypeOK
  <2>4. Local'
    BY <1>6, <2>2 DEF Swap, Goto, TypeOK, Local
  <2> QED BY <2>3, <2>4
<1>7. ASSUME NEW c \in Callers, Reset(c) PROVE (TypeOK /\ Local)'
  BY <1>7 DEF TypeOK, Local, Reset, Goto, Return, locals, history
<1>8. ASSUME NEW c \in Callers, Add(c) PROVE (TypeOK /\ Local)'
  <2>1. failCount' \in [Stats -> Nat]
    <3>1. stats[c] \in Stats /\ failCount \in [Stats -> Nat]
      BY <1>8 DEF Add, TypeOK, Local
    <3>2. /\ failCount' = [failCount EXCEPT ![stats[c]] = failCount[stats[c]] + 1]
          /\ failCount[stats[c]] + 1 \in Nat
      BY <1>8, <3>1 DEF Add
    <3> QED BY <3>1, <3>2
  <2>2. stats' \in [Callers -> Stats \cup {nil}]
    BY <1>8 DEF Add, Return, TypeOK
  <2>3. TypeOK'
    BY <1>8, <2>1, <2>2 DEF Add, Return, Goto, history, TypeOK
  <2>4. Local'
    BY <1>8 DEF Add, Return, Goto, TypeOK, Local
  <2> QED BY <2>3, <2>4
<1>9. ASSUME NEW c \in Callers, Blacklist(c) PROVE (TypeOK /\ Local)'
  <2>1. black' \in Nat
    BY <1>9 DEF Blacklist, TypeOK
  <2>2. TypeOK'
    BY <1>9, <2>1 DEF Blacklist, Return, Goto, history, TypeOK
  <2>3. Local'
    BY <1>9 DEF Blacklist, Return, Goto, TypeOK, Local
  <2> QED BY <2>2, <2>3
<1>10. ASSUME Tick PROVE (TypeOK /\ Local)'
  BY <1>10 DEF TypeOK, Local, Tick, Goto, Return, locals, history
<1>11. ASSUME UNCHANGED trackerVars PROVE (TypeOK /\ Local)'
  BY <1>11 DEF TypeOK, Local, trackerVars, locals, history
<1> QED
  BY <1>1, <1>2, <1>3, <1>4, <1>5, <1>6, <1>7, <1>8, <1>9, <1>10, <1>11 DEF NextTracker, CallStep

LEMMA Counts == ASSUME TypeOK, Local, NoneTwice, [NextTracker]_trackerVars PROVE NoneTwice'
<1> USE TrackerAssumption
<1>a. \A s \in Stats : failCount[s] \in Nat
  BY DEF TypeOK
<1>b. total \in Nat /\ Cardinality(Pending) \in Nat
  BY Counted DEF TypeOK
<1>1. ASSUME NEW c \in Callers, Record(c) PROVE NoneTwice'
  <2>1. c \in Callers \ Pending /\ Pending' = Pending \cup {c}
    BY <1>1 DEF Record, Goto, Pending, TypeOK
  <2>2. Cardinality(Pending') = Cardinality(Pending) + 1 /\ total' = total + 1
    BY <1>1, <2>1, Counted DEF Record
  <2>3. \A s \in Stats : failCount'[s] + Cardinality(Pending') <= total'
    BY <1>1, <1>a, <1>b, <2>2 DEF NoneTwice, Record
  <2>4. Cardinality(Pending') <= total' /\ total <= total'
    BY <1>b, <2>2 DEF NoneTwice
  <2>5. \A d \in Callers : pc'[d] = "ban" => total > threshold
    BY <1>1 DEF NoneTwice, Record, Goto, TypeOK
  <2> QED BY <1>1, <1>b, <2>2, <2>3, <2>4, <2>5 DEF NoneTwice, Record
<1>2. ASSUME NEW c \in Callers, NewEntry(c) PROVE NoneTwice'
  <2>1. c \in Pending /\ Pending' = Pending \ {c}
    BY <1>2 DEF NewEntry, Return, Goto, Pending, TypeOK
  <2>2. Cardinality(Pending') = Cardinality(Pending) - 1 /\ total' = total
    BY <1>2, <2>1, Counted DEF NewEntry, history
  <2>3. \A s \in Stats : failCount'[s] = failCount[s] \/ failCount'[s] = 1
    BY <1>2 DEF NewEntry, TypeOK
  <2>4. \A s \in Stats : failCount'[s] + Cardinality(Pending') <= total'
    BY <1>a, <1>b, <2>1, <2>2, <2>3, Counted DEF NoneTwice
  <2>5. \A d \in Callers : pc'[d] = "ban" => total > threshold
    BY <1>2 DEF NoneTwice, NewEntry, Goto, TypeOK
  <2> QED BY <1>2, <1>b, <2>2, <2>4, <2>5 DEF NoneTwice, NewEntry
<1>3. ASSUME NEW c \in Callers, OldEntry(c) PROVE NoneTwice'
  <2>1. Pending' = Pending
    BY <1>3 DEF OldEntry, Goto, Pending, TypeOK
  <2> QED BY <1>3, <2>1 DEF NoneTwice, OldEntry, Goto, TypeOK, locals, history
<1>4. ASSUME NEW c \in Callers, Load(c) PROVE NoneTwice'
  <2>1. Pending' = Pending
    BY <1>4 DEF Load, Goto, Pending, TypeOK
  <2> QED BY <1>4, <2>1 DEF NoneTwice, Load, Goto, TypeOK, locals, history
<1>5. ASSUME NEW c \in Callers, GiveUp(c) PROVE NoneTwice'
  <2>1. c \in Pending /\ Pending' = Pending \ {c}
    BY <1>5 DEF GiveUp, Return, Goto, Pending, TypeOK
  <2>2. Cardinality(Pending') = Cardinality(Pending) - 1 /\ total' = total
    BY <1>5, <2>1, Counted DEF GiveUp, history
  <2>3. \A s \in Stats : failCount'[s] + Cardinality(Pending') <= total'
    BY <1>5, <1>a, <1>b, <2>2 DEF NoneTwice, GiveUp
  <2>4. Cardinality(Pending') <= total' /\ total <= total'
    BY <1>b, <2>2 DEF NoneTwice
  <2>5. \A d \in Callers : pc'[d] = "ban" => total > threshold
    BY <1>5 DEF NoneTwice, GiveUp, Return, Goto, TypeOK
  <2> QED BY <1>5, <1>b, <2>2, <2>3, <2>4, <2>5 DEF NoneTwice, GiveUp
<1>6. ASSUME NEW c \in Callers, Swap(c) PROVE NoneTwice'
  <2>1. Pending' = Pending
    BY <1>6 DEF Swap, Goto, Pending, TypeOK
  <2> QED BY <1>6, <2>1 DEF NoneTwice, Swap, Goto, TypeOK, locals, history
<1>7. ASSUME NEW c \in Callers, Reset(c) PROVE NoneTwice'
  <2>1. c \in Pending /\ Pending' = Pending \ {c}
    BY <1>7 DEF Reset, Return, Goto, Pending, TypeOK
  <2>2. Cardinality(Pending') = Cardinality(Pending) - 1 /\ total' = total
    BY <1>7, <2>1, Counted DEF Reset, history
  <2>3. \A s \in Stats : failCount'[s] = failCount[s] \/ failCount'[s] = 1
    BY <1>7 DEF Reset, TypeOK
  <2>4. \A s \in Stats : failCount'[s] + Cardinality(Pending') <= total'
    BY <1>a, <1>b, <2>1, <2>2, <2>3, Counted DEF NoneTwice
  <2> QED BY <1>7, <1>b, <2>2, <2>4 DEF NoneTwice, Reset, Return, Goto, TypeOK, history
<1>8. ASSUME NEW c \in Callers, Add(c) PROVE NoneTwice'
  <2>1. c \in Pending /\ Pending' = Pending \ {c}
    BY <1>8 DEF Add, Return, Goto, Pending, TypeOK
  <2>2. Cardinality(Pending') = Cardinality(Pending) - 1 /\ total' = total
    BY <1>8, <2>1, Counted DEF Add, history
  <2>3. stats[c] \in Stats /\ failCount' = [failCount EXCEPT ![stats[c]] = @ + 1]
    BY <1>8 DEF Add, Local
  <2>4. \A s \in Stats : failCount'[s] + Cardinality(Pending') <= total'
    <3> SUFFICES ASSUME NEW s \in Stats PROVE failCount'[s] + Cardinality(Pending') <= total'
      OBVIOUS
    <3>1. failCount'[s] \in Nat /\ failCount'[s] <= failCount[s] + 1
      <4>1. failCount \in [Stats -> Nat]
        BY DEF TypeOK
      <4>2. failCount'[s] = IF s = stats[c] THEN failCount[s] + 1 ELSE failCount[s]
        BY <2>3, <4>1
      <4> QED BY <1>a, <4>2
    <3>2. failCount[s] + Cardinality(Pending) <= total
      BY DEF NoneTwice
    <3> QED BY <1>a, <1>b, <2>2, <3>1, <3>2
  <2>5. pc'[c] = "ban" => total > threshold
    <3>1. pc'[c] = "ban" => failCount[stats[c]] + 1 > threshold
      BY <1>8 DEF Add, Return, Goto, TypeOK
    <3>2. failCount[stats[c]] + Cardinality(Pending) <= total
      BY <2>3 DEF NoneTwice
    <3>3. Cardinality(Pending) >= 1
      <4>1. IsFiniteSet(Pending') /\ Cardinality(Pending') \in Nat
        BY <2>1, Counted, FS_RemoveElement, FS_CardinalityType
      <4> QED BY <1>b, <2>2, <4>1
    <3> QED BY <1>a, <1>b, <2>3, <3>1, <3>2, <3>3
  <2>6. \A d \in Callers : pc'[d] = "ban" => total > threshold
    BY <1>8, <2>5 DEF Add, Return, Goto, TypeOK, NoneTwice
  <2> QED BY <1>8, <1>b, <2>2, <2>4, <2>6 DEF NoneTwice, Add, history
<1>9. ASSUME NEW c \in Callers, Blacklist(c) PROVE NoneTwice'
  <2>1. Pending' = Pending /\ total > threshold
    BY <1>9 DEF Blacklist, Return, Goto, Pending, TypeOK, NoneTwice
  <2> QED BY <1>9, <2>1 DEF NoneTwice, Blacklist, Return, Goto, TypeOK, history
<1>10. ASSUME Tick PROVE NoneTwice'
  BY <1>10 DEF NoneTwice, Tick, Pending, locals, history
<1>11. ASSUME UNCHANGED trackerVars PROVE NoneTwice'
  BY <1>11 DEF NoneTwice, trackerVars, Pending, locals, history
<1> QED
  BY <1>1, <1>2, <1>3, <1>4, <1>5, <1>6, <1>7, <1>8, <1>9, <1>10, <1>11 DEF NextTracker, CallStep

-----------------------------------------------------------------------------
(* Counting the failures of a window. *)
LEMMA WindowCount ==
    ASSUME TypeOK, NEW t \in Nat, NEW n \in 0 .. MaxCalls
    PROVE  /\ IsFiniteSet(Within(t, n)) /\ FailuresIn(t, n) \in Nat
           /\ n >= 1 => FailuresIn(t, n - 1) \in Nat /\ FailuresIn(t, n - 1) <= FailuresIn(t, n)
           /\ n >= 1 /\ t <= when[n] /\ when[n] <= t + windowTime =>
                 FailuresIn(t, n) = FailuresIn(t, n - 1) + 1
<1> USE TrackerAssumption
<1>1. IsFiniteSet(Within(t, n)) /\ FailuresIn(t, n) \in Nat
  <2>1. IsFiniteSet(1 .. n) /\ Within(t, n) \in SUBSET (1 .. n)
    BY FS_Interval DEF Within
  <2>2. IsFiniteSet(Within(t, n))
    BY <2>1, FS_Subset
  <2> QED BY <2>2, FS_CardinalityType DEF FailuresIn
<1>2. ASSUME n >= 1 PROVE FailuresIn(t, n - 1) \in Nat /\ FailuresIn(t, n - 1) <= FailuresIn(t, n)
  <2>1. Within(t, n - 1) \subseteq Within(t, n)
    BY <1>2 DEF Within
  <2> QED BY <1>1, <2>1, FS_Subset, FS_CardinalityType DEF FailuresIn
<1>3. ASSUME n >= 1, t <= when[n], when[n] <= t + windowTime
      PROVE  FailuresIn(t, n) = FailuresIn(t, n - 1) + 1
  <2>1. Within(t, n) = Within(t, n - 1) \cup {n} /\ n \notin Within(t, n - 1)
    BY <1>3 DEF Within
  <2>2. IsFiniteSet(Within(t, n - 1))
    BY <1>1, <2>1, FS_Subset
  <2> QED BY <2>1, <2>2, FS_AddElement DEF FailuresIn
<1> QED BY <1>1, <1>2, <1>3

(* A failure that is recorded later does not change the earlier ones. *)
LEMMA WindowKept ==
    ASSUME NEW t, NEW n \in Nat, \A i \in 1 .. n : when'[i] = when[i]
    PROVE  Within(t, n)' = Within(t, n) /\ FailuresIn(t, n)' = FailuresIn(t, n)
<1>1. Within(t, n)' = Within(t, n)
  BY DEF Within
<1> QED BY <1>1 DEF FailuresIn

(* So a justified blacklist entry stays justified. *)
LEMMA JustifiedKept ==
    ASSUME TypeOK, TypeOK', BlacklistJustified, UNCHANGED black,
           \A i \in 1 .. total : when'[i] = when[i], total' \in {total, total + 1}
    PROVE  BlacklistJustified'
<1> SUFFICES ASSUME black' # 0
             PROVE  \E t \in 0 .. MaxTime : FailuresIn(t, total)' > threshold
  BY DEF BlacklistJustified
<1>1. PICK t \in 0 .. MaxTime : FailuresIn(t, total) > threshold
  BY DEF BlacklistJustified
<1>2. PICK n \in Nat : n = total
  BY DEF TypeOK
<1>3. t \in Nat /\ threshold \in Nat /\ total' \in 0 .. MaxCalls
  BY TrackerAssumption DEF TypeOK
<1>4. Within(t, n)' = Within(t, n) /\ FailuresIn(t, n)' = FailuresIn(t, n)
  BY <1>2, WindowKept
<1>5. Within(t, n)' \subseteq Within(t, total)'
  BY <1>2 DEF Within
<1>6. IsFiniteSet(Within(t, total)') /\ FailuresIn(t, total)' \in Nat
  <2>1. IsFiniteSet(1 .. total') /\ Within(t, total)' \in SUBSET (1 .. total')
    BY <1>3, TrackerAssumption, FS_Interval DEF Within
  <2>2. IsFiniteSet(Within(t, total)')
    BY <2>1, FS_Subset
  <2> QED BY <2>2, FS_CardinalityType DEF FailuresIn
<1>7. FailuresIn(t, n)' \in Nat /\ FailuresIn(t, n)' <= FailuresIn(t, total)'
  BY <1>5, <1>6, FS_Subset, FS_CardinalityType DEF FailuresIn
<1> QED BY <1>1, <1>2, <1>3, <1>4, <1>6, <1>7

(* Steps that leave the entry and the recorded failures alone. *)
LEMMA Frame ==
    ASSUME UNCHANGED <<entry, firstConnTime, total, when>>
    PROVE  /\ FailuresIn(firstConnTime[entry], total)' = FailuresIn(firstConnTime[entry], total)
           /\ FailuresIn(firstConnTime[entry], total - 1)' = FailuresIn(firstConnTime[entry], total - 1)
BY DEF FailuresIn, Within

(* Everybody else is idle while a caller is at work. *)
LEMMA Alone ==
    ASSUME OneByOne, NEW c \in Callers, pc[c] # "idle"
    PROVE  /\ AtWork(c) /\ EntryCounted /\ BlacklistJustified
           /\ \A d \in Callers : d # c => pc[d] = "idle"
BY DEF OneByOne

(* What a step of the only caller at work has to establish. *)
LEMMA OnlyStep ==
    ASSUME NEW c \in Callers, \A d \in Callers : d # c => pc'[d] = "idle",
           pc'[c] # "idle" => AtWork(c)', EntryCounted', BlacklistJustified'
    PROVE  OneByOne'
BY DEF OneByOne

LEMMA Counting == ASSUME TypeOK, Local, Windows, [NextTracker]_trackerVars PROVE Windows'
<1>t. TypeOK' /\ Local'
  BY Types
<1>k. ~overlapped' => ~overlapped
  BY DEF NextTracker, Record, CallStep, NewEntry, OldEntry, Load, GiveUp, Swap, Reset, Add,
         Blacklist, Tick, trackerVars, history
<1> SUFFICES ASSUME ~overlapped', OneByOne PROVE OneByOne'
  BY <1>k DEF Windows
<1>n. /\ nil \notin Stats /\ total \in 0 .. MaxCalls /\ windowTime \in Nat /\ threshold \in Nat
      /\ clock \in Nat /\ MaxCalls \in Nat /\ MaxTime \in Nat
      /\ \A s \in Stats : firstConnTime[s] \in Nat /\ failCount[s] \in Nat
      /\ \A c \in Callers : now[c] \in Nat
      /\ entry # nil => entry \in Stats
  BY TrackerAssumption DEF TypeOK
<1>1. ASSUME NEW c \in Callers, Record(c) PROVE OneByOne'
  <2>1. \A d \in Callers : pc[d] = "idle"
    BY <1>1 DEF Record
  <2>2. PICK n \in 0 .. MaxCalls : n = total
    BY <1>n
  <2>3. /\ total' = n + 1 /\ total' - 1 = n /\ total' \in 1 .. MaxCalls
        /\ when' = [when EXCEPT ![n + 1] = clock]
        /\ now'[c] = clock /\ pc'[c] = "lookup"
        /\ \A d \in Callers : d # c => pc'[d] = "idle"
        /\ UNCHANGED <<clock, entry, black, failCount, firstConnTime>>
    BY <1>1, <1>n, <2>1, <2>2 DEF Record, Goto, TypeOK
  <2>4. when'[n + 1] = clock /\ \A i \in 1 .. n : when'[i] = when[i]
    BY <1>n, <2>2, <2>3 DEF TypeOK
  <2>5. BlacklistJustified'
    BY <1>t, <2>2, <2>3, <2>4, JustifiedKept DEF OneByOne
  <2>6. ASSUME entry # nil
        PROVE  /\ failCount[entry] <= FailuresIn(firstConnTime[entry], n)
               /\ firstConnTime[entry] <= clock
    BY <2>1, <2>2, <2>6 DEF OneByOne, EntryCounted, Pending
  <2>7. ASSUME entry # nil PROVE failCount'[entry'] <= FailuresIn(firstConnTime[entry], total - 1)'
    <3>1. PICK t \in Nat : t = firstConnTime[entry]
      BY <1>n, <2>7
    <3>2. FailuresIn(t, n)' = FailuresIn(t, n)
      BY <2>4, <1>n, WindowKept
    <3>3. FailuresIn(firstConnTime[entry], total - 1)' = FailuresIn(t, n)'
      BY <2>3, <3>1 DEF FailuresIn, Within
    <3> QED BY <2>3, <2>6, <2>7, <3>1, <3>2, <3>3
  <2>8. AtWork(c)'
    BY <1>n, <2>3, <2>4, <2>6, <2>7 DEF AtWork
  <2>9. EntryCounted'
    <3>1. c \in Pending'
      BY <2>3 DEF Pending
    <3> QED BY <2>3, <2>6, <3>1 DEF EntryCounted
  <2> QED BY <2>3, <2>5, <2>8, <2>9, OnlyStep
<1>2. ASSUME NEW c \in Callers, NewEntry(c) PROVE OneByOne'
  <2>1. PICK s \in Stats : /\ entry' = s
                           /\ failCount' = [failCount EXCEPT ![s] = 1]
                           /\ firstConnTime' = [firstConnTime EXCEPT ![s] = now[c]]
    BY <1>2 DEF NewEntry
  <2>2. /\ pc[c] = "lookup" /\ pc'[c] = "idle" /\ UNCHANGED <<clock, black, total, when>>
        /\ \A d \in Callers : d # c => pc'[d] = pc[d]
    BY <1>2 DEF NewEntry, Goto, history, TypeOK
  <2>3. AtWork(c) /\ EntryCounted /\ BlacklistJustified /\ \A d \in Callers : d # c => pc[d] = "idle"
    BY <2>2, Alone
  <2>4. PICK t \in Nat : t = now[c]
    BY <1>n
  <2>5. FailuresIn(t, total) >= 1
    <3>1. total >= 1 /\ t = when[total]
      BY <2>3, <2>4 DEF AtWork
    <3>2. t <= when[total] /\ when[total] <= t + windowTime
      BY <1>n, <2>4, <3>1
    <3>3. FailuresIn(t, total) = FailuresIn(t, total - 1) + 1 /\ FailuresIn(t, total - 1) \in Nat
      BY <1>n, <2>4, <3>1, <3>2, WindowCount
    <3> QED BY <3>3
  <2>6. firstConnTime'[entry'] = t /\ failCount'[entry'] = 1
    BY <2>1, <2>4 DEF TypeOK
  <2>7. EntryCounted'
    <3>1. FailuresIn(firstConnTime[entry], total)' = FailuresIn(t, total)
      BY <2>2, <2>6 DEF FailuresIn, Within
    <3>2. t <= clock'
      BY <2>2, <2>3, <2>4 DEF AtWork
    <3> QED BY <2>5, <2>6, <3>1, <3>2 DEF EntryCounted
  <2>8. BlacklistJustified'
    BY <1>t, <2>2, <2>3, JustifiedKept
  <2> QED BY <2>2, <2>3, <2>7, <2>8, OnlyStep
<1>3. ASSUME NEW c \in Callers, OldEntry(c) PROVE OneByOne'
  <2>1. /\ pc[c] = "lookup" /\ pc'[c] = "load" /\ stats'[c] = entry /\ entry # nil
        /\ UNCHANGED <<clock, black, total, when, entry, firstConnTime, failCount, now>>
        /\ \A d \in Callers : d # c => pc'[d] = pc[d]
    BY <1>3 DEF OldEntry, Cached, Goto, history, TypeOK
  <2>2. AtWork(c) /\ EntryCounted /\ BlacklistJustified /\ \A d \in Callers : d # c => pc[d] = "idle"
    BY <2>1, Alone
  <2>3. AtWork(c)'
    BY <2>1, <2>2, Frame DEF AtWork
  <2>4. c \in Pending'
    BY <2>1 DEF Pending
  <2> QED BY <1>t, <2>1, <2>2, <2>3, <2>4, JustifiedKept, OnlyStep DEF EntryCounted
<1>4. ASSUME NEW c \in Callers, Load(c) PROVE OneByOne'
  <2>1. /\ pc[c] = "load"
        /\ pc'[c] = IF now[c] > firstConnTime[stats[c]] + windowTime THEN "swap" ELSE "add"
        /\ UNCHANGED <<clock, black, total, when, entry, firstConnTime, failCount, now, stats>>
        /\ \A d \in Callers : d # c => pc'[d] = pc[d]
    BY <1>4 DEF Load, Goto, history, TypeOK
  <2>2. AtWork(c) /\ EntryCounted /\ BlacklistJustified /\ \A d \in Callers : d # c => pc[d] = "idle"
    BY <2>1, Alone
  <2>3. AtWork(c)'
    <3>1. stats[c] = entry /\ entry \in Stats
      BY <2>1, <2>2 DEF AtWork, Local
    <3> QED BY <1>n, <2>1, <2>2, <3>1, Frame DEF AtWork
  <2>4. c \in Pending'
    BY <2>1 DEF Pending
  <2> QED BY <1>t, <2>1, <2>2, <2>3, <2>4, JustifiedKept, OnlyStep DEF EntryCounted
<1>5. ASSUME NEW c \in Callers, GiveUp(c) PROVE OneByOne'
  <2>1. /\ pc[c] = "load" /\ pc'[c] = "idle"
        /\ UNCHANGED <<clock, black, total, when, entry, firstConnTime, failCount>>
        /\ \A d \in Callers : d # c => pc'[d] = pc[d]
    BY <1>5 DEF GiveUp, Return, Goto, history, TypeOK
  <2>2. AtWork(c) /\ EntryCounted /\ BlacklistJustified /\ \A d \in Callers : d # c => pc[d] = "idle"
    BY <2>1, Alone
  <2>3. EntryCounted'
    <3>1. entry # nil => failCount[entry] <= FailuresIn(firstConnTime[entry], total)
      <4>1. entry # nil => failCount[entry] <= FailuresIn(firstConnTime[entry], total - 1)
        BY <2>1, <2>2 DEF AtWork
      <4>2. total >= 1
        BY <2>2 DEF AtWork
      <4>3. ASSUME entry # nil
            PROVE  /\ FailuresIn(firstConnTime[entry], total) \in Nat
                   /\ FailuresIn(firstConnTime[entry], total - 1) \in Nat
                   /\ FailuresIn(firstConnTime[entry], total - 1) <= FailuresIn(firstConnTime[entry], total)
        BY <1>n, <4>2, <4>3, WindowCount
      <4> QED BY <1>n, <4>1, <4>3
    <3> QED BY <2>1, <2>2, <3>1, Frame DEF EntryCounted
  <2> QED BY <1>t, <2>1, <2>2, <2>3, JustifiedKept, OnlyStep
<1>6. ASSUME NEW c \in Callers, Swap(c) PROVE OneByOne'
  <2>1. /\ pc[c] = "swap" /\ UNCHANGED <<clock, black, total, when, entry, failCount, now, stats>>
        /\ \A d \in Callers : d # c => pc'[d] = pc[d]
    BY <1>6 DEF Swap, Goto, history, TypeOK
  <2>2. AtWork(c) /\ EntryCounted /\ BlacklistJustified /\ \A d \in Callers : d # c => pc[d] = "idle"
    BY <2>1, Alone
  <2>3. stats[c] = entry /\ entry \in Stats
    BY <2>1, <2>2 DEF AtWork, Local
  <2>4. pc'[c] \in {"reset", "load"} /\ c \in Pending'
    BY <1>6 DEF Swap, Goto, Pending, TypeOK
  <2>5. CASE pc'[c] = "reset"
    <3>1. firstConnTime'[entry'] = now[c]
      BY <1>6, <2>1, <2>3, <2>5 DEF Swap, Goto, TypeOK
    <3>2. AtWork(c)'
      BY <1>n, <2>1, <2>2, <2>3, <2>5, <3>1 DEF AtWork
    <3>3. EntryCounted'
      BY <2>1, <2>2, <2>4, <3>1 DEF EntryCounted, AtWork
    <3> QED BY <1>t, <2>1, <2>2, <3>2, <3>3, JustifiedKept, OnlyStep
  <2>6. CASE pc'[c] = "load"
    <3>1. UNCHANGED firstConnTime
      BY <1>6, <2>6 DEF Swap, Goto, TypeOK
    <3>2. AtWork(c)'
      BY <1>n, <2>1, <2>2, <2>3, <2>6, <3>1, Frame DEF AtWork
    <3>3. EntryCounted'
      BY <2>1, <2>2, <2>4, <3>1 DEF EntryCounted
    <3> QED BY <1>t, <2>1, <2>2, <3>2, <3>3, JustifiedKept, OnlyStep
  <2> QED BY <2>4, <2>5, <2>6
<1>7. ASSUME NEW c \in Callers, Reset(c) PROVE OneByOne'
  <2>1. /\ pc[c] = "reset" /\ pc'[c] = "idle"
        /\ UNCHANGED <<clock, black, total, when, entry, firstConnTime>>
        /\ failCount' = [failCount EXCEPT ![stats[c]] = 1]
        /\ \A d \in Callers : d # c => pc'[d] = pc[d]
    BY <1>7 DEF Reset, Return, Goto, history, TypeOK
  <2>2. AtWork(c) /\ EntryCounted /\ BlacklistJustified /\ \A d \in Callers : d # c => pc[d] = "idle"
    BY <2>1, Alone
  <2>3. stats[c] = entry /\ entry \in Stats /\ failCount'[entry'] = 1
    BY <2>1, <2>2 DEF AtWork, Local, TypeOK
  <2>4. FailuresIn(firstConnTime[entry], total) >= 1
    <3>1. total >= 1 /\ firstConnTime[entry] = when[total]
      BY <2>1, <2>2 DEF AtWork
    <3> QED BY <1>n, <2>3, <3>1, WindowCount
  <2>5. EntryCounted'
    BY <2>1, <2>2, <2>3, <2>4, Frame DEF EntryCounted
  <2> QED BY <1>t, <2>1, <2>2, <2>5, JustifiedKept, OnlyStep
<1>8. ASSUME NEW c \in Callers, Add(c) PROVE OneByOne'
  <2>1. /\ pc[c] = "add" /\ pc'[c] \in {"ban", "idle"}
        /\ UNCHANGED <<clock, black, total, when, entry, firstConnTime, now>>
        /\ failCount' = [failCount EXCEPT ![stats[c]] = failCount[stats[c]] + 1]
        /\ \A d \in Callers : d # c => pc'[d] = pc[d]
        /\ pc'[c] = "ban" => failCount[stats[c]] + 1 > threshold /\ UNCHANGED stats
    BY <1>8 DEF Add, Return, Goto, history, TypeOK
  <2>2. AtWork(c) /\ EntryCounted /\ BlacklistJustified /\ \A d \in Callers : d # c => pc[d] = "idle"
    BY <2>1, Alone
  <2>3. stats[c] = entry /\ entry \in Stats /\ failCount'[entry'] = failCount[entry] + 1
    BY <2>1, <2>2 DEF AtWork, Local, TypeOK
  <2>4. failCount[entry] + 1 <= FailuresIn(firstConnTime[entry], total)
    <3>1. /\ total >= 1 /\ firstConnTime[entry] <= when[total]
          /\ when[total] <= firstConnTime[entry] + windowTime
          /\ failCount[entry] <= FailuresIn(firstConnTime[entry], total - 1)
      BY <1>n, <2>1, <2>2, <2>3 DEF AtWork
    <3> QED BY <1>n, <2>3, <3>1, WindowCount
  <2>5. EntryCounted'
    BY <2>1, <2>2, <2>3, <2>4, Frame DEF EntryCounted
  <2>6. pc'[c] = "ban" => AtWork(c)'
    BY <1>n, <2>1, <2>2, <2>3 DEF AtWork
  <2> QED BY <1>t, <2>1, <2>2, <2>5, <2>6, JustifiedKept, OnlyStep
<1>9. ASSUME NEW c \in Callers, Blacklist(c) PROVE OneByOne'
  <2>1. /\ pc[c] = "ban" /\ pc'[c] = "idle"
        /\ UNCHANGED <<clock, total, when, entry, firstConnTime, failCount>>
        /\ \A d \in Callers : d # c => pc'[d] = pc[d]
    BY <1>9 DEF Blacklist, Return, Goto, history, TypeOK
  <2>2. AtWork(c) /\ EntryCounted /\ BlacklistJustified /\ \A d \in Callers : d # c => pc[d] = "idle"
    BY <2>1, Alone
  <2>3. entry \in Stats /\ Pending = {}
    BY <2>1, <2>2 DEF AtWork, Local, Pending
  <2>4. FailuresIn(firstConnTime[entry], total) > threshold
    <3>1. /\ failCount[entry] > threshold
          /\ failCount[entry] <= FailuresIn(firstConnTime[entry], total)
      BY <1>n, <2>1, <2>2, <2>3 DEF AtWork, EntryCounted
    <3>2. FailuresIn(firstConnTime[entry], total) \in Nat
      BY <1>n, <2>3, WindowCount
    <3> QED BY <1>n, <2>3, <3>1, <3>2
  <2>5. BlacklistJustified'
    <3>1. PICK t \in 0 .. MaxTime : t = firstConnTime[entry]
      BY <2>3 DEF TypeOK
    <3>2. FailuresIn(t, total)' = FailuresIn(t, total)
      BY <2>1 DEF FailuresIn, Within
    <3> QED BY <2>4, <3>1, <3>2 DEF BlacklistJustified
  <2>6. EntryCounted'
    BY <2>1, <2>2, <2>3, Frame DEF EntryCounted
  <2> QED BY <2>1, <2>2, <2>5, <2>6, OnlyStep
<1>10. ASSUME Tick \/ UNCHANGED trackerVars PROVE OneByOne'
  <2>1. /\ UNCHANGED <<black, total, when, entry, firstConnTime, failCount, pc, now, stats>>
        /\ clock' \in Nat /\ clock <= clock'
    <3>1. CASE Tick
      BY <3>1, <1>n DEF Tick, history, locals
    <3>2. CASE UNCHANGED trackerVars
      BY <3>2, <1>n DEF trackerVars, history, locals
    <3> QED BY <1>10, <3>1, <3>2
  <2>2. BlacklistJustified'
    BY <1>t, <2>1, JustifiedKept DEF OneByOne
  <2>3. EntryCounted'
    <3>1. Pending' = Pending
      BY <2>1 DEF Pending
    <3> QED BY <1>n, <2>1, <3>1, Frame DEF OneByOne, EntryCounted
  <2>4. \A c \in Callers : pc[c] # "idle" => AtWork(c)'
    BY <1>n, <2>1, Frame DEF OneByOne, AtWork
  <2> QED BY <2>1, <2>2, <2>3, <2>4 DEF OneByOne
<1> QED
  BY <1>1, <1>2, <1>3, <1>4, <1>5, <1>6, <1>7, <1>8, <1>9, <1>10 DEF NextTracker, CallStep

-----------------------------------------------------------------------------
LEMMA Initially == InitTracker => IInv
<1> SUFFICES ASSUME InitTracker PROVE IInv
  OBVIOUS
<1>1. TypeOK
  <2>1. overlapped \in BOOLEAN
    BY Zenon DEF InitTracker
  <2>2. 0 \in 0 .. MaxTime /\ 0 \in 0 .. maxAttempts /\ 0 \in 0 .. MaxCalls
    BY TrackerAssumption
  <2> QED BY <2>1, <2>2 DEF InitTracker, TypeOK
<1>2. Local
  BY TrackerAssumption DEF InitTracker, Local
<1>3. Pending = {} /\ Cardinality(Pending) = 0
  BY FS_EmptySet DEF InitTracker, Pending
<1>4. NoneTwice
  BY <1>3 DEF InitTracker, NoneTwice
<1> QED BY <1>1, <1>2, <1>4 DEF IInv

(* A pair of exit ip and target is put on the blacklist only after more    *)
(* than threshold failures, for any number of handlers that record         *)
(* failures at once, any ttl and any window (dial_fail_tracker.go 78-124). *)
THEOREM NoneCountedTwice == SpecTracker => []NeverWithoutFailures
<1>1. InitTracker => IInv
  BY Initially
<1>2. IInv /\ [NextTracker]_trackerVars => IInv'
  BY Types, Counts DEF IInv
<1>3. IInv => NeverWithoutFailures
  BY DEF IInv, NoneTwice, NeverWithoutFailures
<1> QED BY <1>1, <1>2, <1>3, PTL DEF SpecTracker

(* While calls of RecordDialFailConnection for the pair do not overlap, it *)
(* is put on the blacklist only for more than threshold failures within    *)
(* one window, whatever entries expire and windows are restarted in        *)
(* between (dial_fail_tracker.go 78-124).                                  *)
THEOREM ExactWindows == SpecTracker => []JustifiedOneByOne
<1>1. InitTracker => TypeOK /\ Local /\ Windows
  <2>1. InitTracker => TypeOK /\ Local
    BY Initially DEF IInv
  <2>2. InitTracker => OneByOne
    BY DEF InitTracker, OneByOne, EntryCounted, BlacklistJustified
  <2> QED BY <2>1, <2>2 DEF Windows
<1>2. TypeOK /\ Local /\ Windows /\ [NextTracker]_trackerVars => (TypeOK /\ Local /\ Windows)'
  BY Types, Counting
<1>3. Windows => JustifiedOneByOne
  BY DEF Windows, OneByOne, JustifiedOneByOne
<1> QED BY <1>1, <1>2, <1>3, PTL DEF SpecTracker
=============================================================================
