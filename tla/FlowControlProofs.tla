------------------------- MODULE FlowControlProofs --------------------------
(***************************************************************************)
(* Theorems about FlowControl, for any number of streams and handlers, any *)
(* windows and any sizes.                                                  *)
(***************************************************************************)
EXTENDS FlowControl, FiniteSetTheorems, FunctionTheorems, TLAPS

-----------------------------------------------------------------------------
(* Sums over the streams.  Total(f) counts the pairs of Units(f), so that    *)
(* the library's facts about cardinalities give what the invariants need.    *)

\* The pairs that stream s contributes to a sum.
Column(s, n) == {s} \X (1 .. n)

LEMMA ColumnCardinality ==
  ASSUME NEW s, NEW n \in Nat
  PROVE  IsFiniteSet(Column(s, n)) /\ Cardinality(Column(s, n)) = n
<1>1. IsFiniteSet(1 .. n) /\ Cardinality(1 .. n) = n
  BY FS_Interval
<1>2. IsFiniteSet({s}) /\ Cardinality({s}) = 1
  BY FS_Singleton
<1> QED
  BY <1>1, <1>2, FS_Product DEF Column

LEMMA UnitsFinite ==
  ASSUME NEW f \in [Stream -> Nat]
  PROVE  IsFiniteSet(Units(f))
<1> DEFINE C == [s \in Stream |-> Column(s, f[s])]
           Cols == {Column(s, f[s]) : s \in Stream}
<1>1. C \in Surjection(Stream, Cols)
  BY DEF Surjection
<1>2. IsFiniteSet(Cols)
  BY <1>1, ConstantsAssumption, FS_Surjection
<1>3. \A c \in Cols : IsFiniteSet(c)
  BY ColumnCardinality
<1> QED
  BY <1>2, <1>3, FS_UNION DEF Units, Column

LEMMA TotalType ==
  ASSUME NEW f \in [Stream -> Nat]
  PROVE  Total(f) \in Nat
BY UnitsFinite, FS_CardinalityType DEF Total

LEMMA TotalZero == Total([s \in Stream |-> 0]) = 0
<1>1. Units([s \in Stream |-> 0]) = {}
  BY DEF Units
<1> QED
  BY <1>1, FS_EmptySet DEF Total

\* Changing one summand changes the sum by the difference.
LEMMA TotalUpdate ==
  ASSUME NEW f \in [Stream -> Nat], NEW s \in Stream, NEW n \in Nat
  PROVE  Total([f EXCEPT ![s] = n]) = (Total(f) - f[s]) + n
<1> DEFINE g == [f EXCEPT ![s] = n]
           Others == Units(f) \ Column(s, f[s])
<1>1. g \in [Stream -> Nat] /\ g[s] = n
  OBVIOUS
<1>2. Column(s, f[s]) \subseteq Units(f)
  BY DEF Units, Column
<1>3. Units(g) = Others \cup Column(s, n)
  <2>1. ASSUME NEW u \in Units(g) PROVE u \in Others \cup Column(s, n)
    <3>1. PICK t \in Stream : u \in {t} \X (1 .. g[t])
      BY DEF Units
    <3>2. CASE t = s
      BY <3>1, <3>2, <1>1 DEF Column
    <3>3. CASE t # s
      <4>1. u \in {t} \X (1 .. f[t])
        BY <3>1, <3>3
      <4>2. u \in Units(f)
        BY <4>1 DEF Units
      <4>3. u \notin Column(s, f[s])
        BY <4>1, <3>3 DEF Column
      <4> QED
        BY <4>2, <4>3
    <3> QED
      BY <3>2, <3>3
  <2>2. ASSUME NEW u \in Others PROVE u \in Units(g)
    <3>1. PICK t \in Stream : u \in {t} \X (1 .. f[t])
      BY DEF Units
    <3>2. t # s
      BY <3>1 DEF Column
    <3>3. u \in {t} \X (1 .. g[t])
      BY <3>1, <3>2
    <3> QED
      BY <3>3 DEF Units
  <2>3. Column(s, n) \subseteq Units(g)
    BY <1>1 DEF Units, Column
  <2> QED
    BY <2>1, <2>2, <2>3
<1>4. Others \cap Column(s, n) = {}
  <2>1. ASSUME NEW u \in Others, u \in Column(s, n) PROVE FALSE
    <3>1. PICK t \in Stream : u \in {t} \X (1 .. f[t])
      BY DEF Units
    <3>2. t = s
      BY <3>1, <2>1 DEF Column
    <3> QED
      BY <3>1, <3>2 DEF Column
  <2> QED
    BY <2>1
<1>5. IsFiniteSet(Units(f)) /\ IsFiniteSet(Column(s, n))
  BY UnitsFinite, ColumnCardinality
<1>6. /\ IsFiniteSet(Others)
      /\ Cardinality(Others) =
           Cardinality(Units(f)) - Cardinality(Units(f) \cap Column(s, f[s]))
  BY <1>5, FS_Difference
<1>7. Units(f) \cap Column(s, f[s]) = Column(s, f[s])
  BY <1>2
<1>8. Cardinality(Column(s, f[s])) = f[s] /\ Cardinality(Column(s, n)) = n
  BY ColumnCardinality
<1>9. Cardinality(Units(g)) =
        Cardinality(Others) + Cardinality(Column(s, n)) - Cardinality({})
  <2> HIDE DEF g, Others
  <2>1. IsFiniteSet(Others) /\ IsFiniteSet(Column(s, n))
    BY <1>5, <1>6
  <2>2. Cardinality(Others \cup Column(s, n)) =
          Cardinality(Others) + Cardinality(Column(s, n))
            - Cardinality(Others \cap Column(s, n))
    BY <2>1, FS_Union
  <2> QED
    BY <1>3, <1>4, <2>2
<1>10. Cardinality({}) = 0 /\ Cardinality(Units(f)) \in Nat
  BY <1>5, FS_EmptySet, FS_CardinalityType
<1>11. f[s] \in Nat
  OBVIOUS
<1> HIDE DEF g, Others
<1>12. Cardinality(Units(g)) = (Cardinality(Units(f)) - f[s]) + n
  <2>1. Cardinality(Others) = Cardinality(Units(f)) - f[s]
    BY <1>6, <1>7, <1>8
  <2>2. Cardinality(Units(g)) = Cardinality(Others) + n - 0
    BY <1>8, <1>9, <1>10
  <2> QED
    BY <2>1, <2>2, <1>10, <1>11
<1>13. Total(g) = (Total(f) - f[s]) + n
  BY <1>12 DEF Total
<1> QED
  BY <1>13 DEF g

\* A sum of larger terms is no smaller.
LEMMA TotalMonotone ==
  ASSUME NEW f \in [Stream -> Nat], NEW g \in [Stream -> Nat],
         \A s \in Stream : f[s] <= g[s]
  PROVE  Total(f) <= Total(g)
<1>1. Units(f) \subseteq Units(g)
  BY DEF Units
<1>2. IsFiniteSet(Units(g))
  BY UnitsFinite
<1> QED
  BY <1>1, <1>2, FS_Subset DEF Total

-----------------------------------------------------------------------------
(* Type correctness. *)

\* A frame holds no more than the buffer has left, and is not empty.
FrameFits ==
  \A h \in Handler :
    pc[h] \in {"write", "payload", "account"} => len[h] \in 1 .. rest[h]

TypeInv == TypeOK /\ FrameFits

\* Next, one name per disjunct.
LEMMA NextCases ==
  ASSUME Next
  PROVE  \/ \E s \in Stream : Headers(s)
         \/ \E h \in Handler : Dispatch(h)
         \/ \E n \in Increments : WindowUpdate0(n)
         \/ \E s \in Stream, n \in Increments : WindowUpdate(s, n)
         \/ \E v \in WindowSettings : SettingsInitialWindow(v)
         \/ \E s \in Stream : RstStream(s)
         \/ StopConnection
         \/ Answer
         \/ \E h \in Handler : Respond(h)
         \/ \E h \in Handler : NoHeader(h)
         \/ \E h \in Handler : Fill(h)
         \/ \E h \in Handler : FillEnd(h)
         \/ \E h \in Handler : Test(h)
         \/ \E h \in Handler : Window(h)
         \/ \E h \in Handler, full \in BOOLEAN : QueueReady(h, full)
         \/ \E h \in Handler : Write(h)
         \/ \E h \in Handler : Payload(h)
         \/ \E h \in Handler : Account(h)
         \/ \E h \in Handler : Release(h)
         \/ \E h \in Handler : Tail(h)
         \/ \E h \in Handler : ErrorHeaders(h)
         \/ \E h \in Handler : ErrorHead(h)
         \/ \E h \in Handler : ErrorPage(h)
         \/ \E h \in Handler : Exit(h)
BY DEF Next, ReaderStep, HandlerStep

LEMMA InitType == Init => TypeInv
<1> SUFFICES ASSUME Init PROVE TypeInv
  OBVIOUS
<1>1. InitialWindow \in Int /\ InitialWindow \in 0 .. MaxWindow
  BY ConstantsAssumption
<1>2. FrameFits
  BY DEF Init, FrameFits
<1>3. /\ wnd0 \in Int /\ initWnd \in 0 .. MaxWindow /\ peer0 \in Int
      /\ res0 \in Int /\ free \in Int
  BY <1>1 DEF Init
<1>8. stop \in BOOLEAN /\ whole \in BOOLEAN
  BY DEF Init
<1>4. /\ wnd \in [Stream -> Int] /\ peer \in [Stream -> Int]
      /\ res \in [Stream -> Nat] /\ spent \in [Stream -> Int]
      /\ wire \in [Stream -> {"open", "ended", "after"}]
  BY DEF Init
<1>5. /\ pc \in [Handler -> PCs] /\ seen \in [Handler -> Int]
      /\ len \in [Handler -> Nat] /\ rest \in [Handler -> Nat]
      /\ todo \in [Handler -> Nat] /\ tail \in [Handler -> Nat]
  BY DEF Init, PCs
<1>6. open \subseteq Stream /\ reset \subseteq Stream /\ stale \subseteq Handler
  BY DEF Init
<1>7. TypeOK
  BY <1>3, <1>8, <1>4, <1>5, <1>6 DEF TypeOK
<1> QED
  BY <1>2, <1>7 DEF TypeInv

LEMMA OnWireType ==
  ASSUME TypeInv, NEW h \in Handler, NEW end \in BOOLEAN, OnWire(h, end)
  PROVE  wire' \in [Stream -> {"open", "ended", "after"}] /\ whole' \in BOOLEAN
BY DEF TypeInv, TypeOK, OnWire, CutsNone

LEMMA StepType ==
  ASSUME TypeInv, [Next]_vars
  PROVE  TypeInv'
<1> USE ConstantsAssumption
<1> USE DEF TypeInv, TypeOK, FrameFits, PCs, Goto, Reserve, MinOf, Available,
            FrameSize, Continues, CutsNone, windows, reserved, conn, frame, body, observed
<1>0. ASSUME NEW s \in Stream, Headers(s) PROVE TypeInv'
  BY <1>0 DEF Headers
<1>1. ASSUME NEW h \in Handler, Dispatch(h) PROVE TypeInv'
  <2>1. rest' \in [Handler -> Nat] /\ todo' \in [Handler -> Nat]
    BY <1>1 DEF Dispatch
  <2>2. pc' \in [Handler -> PCs]
    BY <1>1 DEF Dispatch
  <2>3. FrameFits'
    BY <1>1 DEF Dispatch
  <2>4. UNCHANGED <<wnd0, wnd, initWnd, res0, res, open, reset, stop, seen,
                    len, tail, peer0, peer, free, spent, stale, wire, whole>>
    BY <1>1 DEF Dispatch
  <2> QED
    BY <2>1, <2>2, <2>3, <2>4
<1>2. ASSUME NEW n \in Increments, WindowUpdate0(n) PROVE TypeInv'
  <2>1. stop' \in BOOLEAN
    BY <1>2 DEF WindowUpdate0
  <2>2. wnd0' \in Int /\ peer0' \in Int
    BY <1>2 DEF WindowUpdate0
  <2>3. whole' \in BOOLEAN
    BY <1>2 DEF WindowUpdate0
  <2> QED
    BY <1>2, <2>1, <2>2, <2>3 DEF WindowUpdate0
<1>3. ASSUME NEW s \in Stream, NEW n \in Increments, WindowUpdate(s, n)
      PROVE  TypeInv'
  BY <1>3 DEF WindowUpdate
<1>4. ASSUME NEW v \in WindowSettings, SettingsInitialWindow(v) PROVE TypeInv'
  BY <1>4 DEF SettingsInitialWindow
<1>5. ASSUME NEW s \in Stream, RstStream(s) PROVE TypeInv'
  BY <1>5 DEF RstStream
<1>6. ASSUME StopConnection PROVE TypeInv'
  BY <1>6 DEF StopConnection
<1>7. ASSUME NEW h \in Handler, Fill(h) PROVE TypeInv'
  BY <1>7 DEF Fill
<1>8. ASSUME NEW h \in Handler, FillEnd(h) PROVE TypeInv'
  BY <1>8 DEF FillEnd
<1>9. ASSUME NEW h \in Handler, Test(h) PROVE TypeInv'
  BY <1>9 DEF Test
<1>10. ASSUME NEW h \in Handler, Window(h) PROVE TypeInv'
  BY <1>10 DEF Window
<1>11. ASSUME NEW h \in Handler, NEW full \in BOOLEAN, QueueReady(h, full)
       PROVE  TypeInv'
  BY <1>11 DEF QueueReady
<1>12. ASSUME NEW h \in Handler, Write(h) PROVE TypeInv'
  <2>1. EndFlag(h) \in BOOLEAN
    BY DEF EndFlag
  <2>2. wire' \in [Stream -> {"open", "ended", "after"}] /\ whole' \in BOOLEAN
    BY <1>12, <2>1, OnWireType DEF Write
  <2>3. /\ peer0' \in Int /\ peer' \in [Stream -> Int] /\ free' \in Int
        /\ spent' \in [Stream -> Int]
    BY <1>12 DEF Write
  <2>4. /\ pc[h] = "write" /\ pc' \in [Handler -> PCs]
        /\ \A g \in Handler : g # h => pc'[g] = pc[g]
        /\ stale' \subseteq Handler
        /\ UNCHANGED <<wnd0, wnd, initWnd, res0, res, open, reset, stop, seen,
                        len, rest, todo, tail>>
    BY <1>12 DEF Write
  <2> QED
    BY <2>2, <2>3, <2>4
<1>13. ASSUME NEW h \in Handler, Account(h) PROVE TypeInv'
  BY <1>13 DEF Account
<1>14. ASSUME NEW h \in Handler, Release(h) PROVE TypeInv'
  BY <1>14 DEF Release
<1>15. ASSUME NEW h \in Handler, Tail(h) PROVE TypeInv'
  <2>1. wire' \in [Stream -> {"open", "ended", "after"}] /\ whole' \in BOOLEAN
    BY <1>15, OnWireType DEF Tail
  <2>2. peer0' \in Int /\ peer' \in [Stream -> Int] /\ free' \in Int
    <3>1. CASE StreamOf[h] \in reset
      BY <1>15, <3>1 DEF Tail
    <3>2. CASE StreamOf[h] \notin reset
      BY <1>15, <3>2 DEF Tail
    <3> QED
      BY <3>1, <3>2
  <2>3. /\ pc[h] = "tail" /\ pc' \in [Handler -> PCs]
        /\ pc'[h] = "exit" /\ \A g \in Handler : g # h => pc'[g] = pc[g]
        /\ UNCHANGED <<wnd0, wnd, initWnd, res0, res, open, reset, stop, seen,
                        len, rest, todo, tail, spent, stale>>
    BY <1>15 DEF Tail
  <2> QED
    BY <2>1, <2>2, <2>3
<1>16. ASSUME NEW h \in Handler, ErrorHeaders(h) PROVE TypeInv'
  <2>1. wire' \in [Stream -> {"open", "ended", "after"}] /\ whole' \in BOOLEAN
    BY <1>16, OnWireType DEF ErrorHeaders
  <2>2. /\ pc[h] = "error" /\ pc' \in [Handler -> PCs]
        /\ pc'[h] \in {"exit", "errordata"} /\ \A g \in Handler : g # h => pc'[g] = pc[g]
        /\ UNCHANGED <<wnd0, wnd, initWnd, res0, res, open, reset, stop, seen,
                        len, rest, todo, tail, spent, stale, peer0, peer, free>>
    BY <1>16 DEF ErrorHeaders
  <2> QED
    BY <2>1, <2>2
<1>19. ASSUME NEW h \in Handler, ErrorHead(h) PROVE TypeInv'
  <2>1. wire' \in [Stream -> {"open", "ended", "after"}] /\ whole' \in BOOLEAN
    BY <1>19, OnWireType DEF ErrorHead
  <2>2. peer0' \in Int /\ peer' \in [Stream -> Int] /\ free' \in Int
    BY <1>19 DEF ErrorHead
  <2>3. /\ pc[h] = "errordata" /\ pc' \in [Handler -> PCs]
        /\ pc'[h] = "page" /\ \A g \in Handler : g # h => pc'[g] = pc[g]
        /\ UNCHANGED <<wnd0, wnd, initWnd, res0, res, open, reset, stop, seen,
                        len, rest, todo, tail, spent, stale>>
    BY <1>19 DEF ErrorHead
  <2> QED
    BY <2>1, <2>2, <2>3
<1>20. ASSUME NEW h \in Handler, ErrorPage(h) PROVE TypeInv'
  BY <1>20 DEF ErrorPage
<1>21. ASSUME NEW h \in Handler, Payload(h) PROVE TypeInv'
  BY <1>21 DEF Payload
<1>22. ASSUME NEW h \in Handler, Respond(h) PROVE TypeInv'
  BY <1>22 DEF Respond
<1>23. ASSUME NEW h \in Handler, NoHeader(h) PROVE TypeInv'
  BY <1>23, OnWireType DEF NoHeader
<1>24. ASSUME Answer PROVE TypeInv'
  BY <1>24 DEF Answer
<1>17. ASSUME NEW h \in Handler, Exit(h) PROVE TypeInv'
  BY <1>17 DEF Exit
<1>18. CASE UNCHANGED vars
  BY <1>18 DEF vars
<1> QED
  BY <1>0, <1>1, <1>2, <1>3, <1>4, <1>5, <1>6, <1>7, <1>8, <1>9, <1>10, <1>11,
     <1>12, <1>13, <1>14, <1>15, <1>16, <1>17, <1>18, <1>19, <1>20, <1>21, <1>22,
     <1>23, <1>24, NextCases

\* Every variable keeps its type, and a frame is never larger than what is
\* left to send.
THEOREM TypeCorrect == Spec => []TypeOK
<1>1. TypeInv => TypeOK
  BY DEF TypeInv
<1> QED
  BY <1>1, InitType, StepType, PTL DEF Spec

-----------------------------------------------------------------------------
(* The reservations add up. *)

\* A step either leaves the reservations alone or rewrites the entry of one
\* stream together with the sum.
LEMMA ReservationStep ==
  ASSUME TypeInv, [Next]_vars
  PROVE  \/ UNCHANGED <<res0, res>>
         \/ \E s \in Stream, n \in Nat : Reserve(s, n)
<1> USE ConstantsAssumption
<1>1. ASSUME NEW h \in Handler, Window(h)
      PROVE  \E s \in Stream, n \in Nat : Reserve(s, n)
  <2> DEFINE s == StreamOf[h]
             avail == Available(s)
             n == IF avail > 0 THEN avail ELSE 0
  <2>1. s \in Stream /\ n \in Nat
    BY DEF TypeInv, TypeOK, MinOf, Available, FrameSize
  <2> QED
    BY <1>1, <2>1 DEF Window
<1>2. ASSUME NEW h \in Handler, NEW full \in BOOLEAN, QueueReady(h, full)
      PROVE  \E s \in Stream, n \in Nat : Reserve(s, n)
  <2> DEFINE n == FrameSize(h, full)
  <2>1. StreamOf[h] \in Stream /\ n \in Nat
    BY DEF TypeInv, TypeOK, MinOf, Available, FrameSize
  <2> QED
    BY <1>2, <2>1 DEF QueueReady
<1>3. ASSUME NEW h \in Handler, Account(h) \/ Release(h)
      PROVE  \E s \in Stream, n \in Nat : Reserve(s, n)
  BY <1>3 DEF Account, Release
<1>4. ASSUME NEW h \in Handler,
             \/ Dispatch(h) \/ Fill(h) \/ FillEnd(h) \/ Test(h) \/ Write(h)
             \/ Respond(h) \/ NoHeader(h) \/ Payload(h) \/ Tail(h)
             \/ ErrorHeaders(h) \/ ErrorHead(h) \/ ErrorPage(h) \/ Exit(h)
      PROVE  UNCHANGED <<res0, res>>
  BY <1>4 DEF Dispatch, Fill, FillEnd, Test, Write, Respond, NoHeader, Payload,
              Tail, ErrorHeaders, ErrorHead, ErrorPage, Exit, reserved
<1>5. ASSUME \/ \E n \in Increments : WindowUpdate0(n)
             \/ \E s \in Stream, n \in Increments : WindowUpdate(s, n)
             \/ \E v \in WindowSettings : SettingsInitialWindow(v)
             \/ \E s \in Stream : Headers(s) \/ RstStream(s)
             \/ StopConnection \/ Answer
             \/ UNCHANGED vars
      PROVE  UNCHANGED <<res0, res>>
  BY <1>5 DEF WindowUpdate0, WindowUpdate, SettingsInitialWindow, Headers,
              RstStream, StopConnection, Answer, reserved, vars
<1> QED
  BY <1>1, <1>2, <1>3, <1>4, <1>5, NextCases

\* maResWndSizes[0] always is the sum of the other entries, however many
\* handlers a stream has: nothing reserved is forgotten or released twice.
THEOREM ReservationsAddUp == Spec => []ReservationsMatch
<1>1. Init => ReservationsMatch
  BY TotalZero DEF Init, ReservationsMatch
<1>2. TypeInv /\ ReservationsMatch /\ [Next]_vars => ReservationsMatch'
  <2> SUFFICES ASSUME TypeInv, ReservationsMatch, [Next]_vars
               PROVE  ReservationsMatch'
    OBVIOUS
  <2>1. res \in [Stream -> Nat]
    BY DEF TypeInv, TypeOK
  <2>2. CASE UNCHANGED <<res0, res>>
    BY <2>2 DEF ReservationsMatch, Total, Units
  <2>3. ASSUME NEW s \in Stream, NEW n \in Nat, Reserve(s, n)
        PROVE  ReservationsMatch'
    <3>1. res' = [res EXCEPT ![s] = n] /\ res0' = (res0 - res[s]) + n
      BY <2>3 DEF Reserve
    <3>2. Total([res EXCEPT ![s] = n]) = (Total(res) - res[s]) + n
      BY <2>1, TotalUpdate
    <3>3. Total(res)' = Total(res')
      BY DEF Total, Units
    <3> QED
      BY <3>1, <3>2, <3>3 DEF ReservationsMatch
  <2> QED
    BY <2>2, <2>3, ReservationStep
<1> QED
  BY <1>1, <1>2, InitType, StepType, PTL DEF Spec

-----------------------------------------------------------------------------
(* One handler per stream: the connection's window is never overrun. *)

\* Reserving, writing and accounting concern the stream of one handler; what
\* the others hold on theirs stays.
LEMMA OtherFrames ==
  ASSUME OneHandlerPerStream, TypeInv,
         NEW h \in Handler, NEW g \in Handler, g # h,
         FrameIsReserved(g),
         pc'[g] = pc[g], seen'[g] = seen[g], len'[g] = len[g],
         \A s \in Stream : s # StreamOf[h] => res'[s] = res[s] /\ spent'[s] = spent[s]
  PROVE  FrameIsReserved(g)'
<1>1. StreamOf[g] \in Stream /\ StreamOf[g] # StreamOf[h]
  BY ConstantsAssumption DEF OneHandlerPerStream
<1> QED
  BY <1>1 DEF FrameIsReserved

\* Reservations stay within the window, and the window is what the peer
\* allows plus what is written but not accounted for.
LEMMA StepReservedFits ==
  ASSUME OneHandlerPerStream, TypeInv, ReservedFitsWindow, [Next]_vars
  PROVE  ReservedFitsWindow'
<1> USE ConstantsAssumption
<1> DEFINE Frames == \A g \in Handler : FrameIsReserved(g)
           SpentFits == \A s \in Stream : spent[s] \in 0 .. res[s]
           Within == res0 <= wnd0
           Ledger == wnd0 = peer0 + free + Total(spent)
<1>1. Frames /\ SpentFits /\ Within /\ Ledger
  BY DEF ReservedFitsWindow
<1>2. spent \in [Stream -> Nat] /\ Total(spent) \in Nat
  <2>1. spent \in [Stream -> Nat]
    BY <1>1 DEF TypeInv, TypeOK
  <2> QED
    BY <2>1, TotalType
<1>3. ASSUME spent' = spent PROVE Total(spent)' = Total(spent)
  BY <1>3 DEF Total, Units
<1>4. ASSUME Frames', SpentFits', Within', Ledger'
      PROVE  ReservedFitsWindow'
  BY <1>4 DEF ReservedFitsWindow
<1> HIDE DEF Ledger
<1>5. ASSUME NEW h \in Handler, Dispatch(h) PROVE ReservedFitsWindow'
  <2>1. /\ UNCHANGED <<wnd0, res0, res, seen, len, peer0, free, spent>>
        /\ pc[h] \notin {"queue", "write", "payload", "account"}
        /\ pc'[h] \notin {"queue", "write", "payload", "account"}
        /\ \A g \in Handler : g # h => pc'[g] = pc[g]
    BY <1>5 DEF Dispatch, Goto, TypeInv, TypeOK, windows, reserved, frame, observed
  <2>2. Frames' /\ SpentFits' /\ Within'
    BY <1>1, <2>1 DEF FrameIsReserved
  <2>3. Ledger'
    BY <1>1, <2>1, <1>3 DEF Ledger
  <2> QED
    BY <1>4, <2>2, <2>3
<1>6. ASSUME NEW n \in Increments, WindowUpdate0(n) PROVE ReservedFitsWindow'
  <2>1. UNCHANGED <<res0, res, pc, seen, len, free, spent>>
    BY <1>6 DEF WindowUpdate0, reserved, frame
  <2>2. \E d \in Nat : wnd0' = wnd0 + d /\ peer0' = peer0 + d
    <3>1. CASE wnd0 + n > MaxWindow
      BY <1>6, <3>1 DEF WindowUpdate0, TypeInv, TypeOK
    <3>2. CASE ~(wnd0 + n > MaxWindow)
      BY <1>6, <3>2 DEF WindowUpdate0
    <3> QED
      BY <3>1, <3>2
  <2>3. Frames' /\ SpentFits' /\ Within'
    BY <1>1, <2>1, <2>2 DEF FrameIsReserved, TypeInv, TypeOK
  <2>4. Ledger'
    BY <1>1, <1>2, <1>3, <2>1, <2>2 DEF Ledger, TypeInv, TypeOK
  <2> QED
    BY <1>4, <2>3, <2>4
<1>7. ASSUME \/ \E s \in Stream, n \in Increments : WindowUpdate(s, n)
             \/ \E v \in WindowSettings : SettingsInitialWindow(v)
             \/ \E s \in Stream : Headers(s) \/ RstStream(s)
             \/ StopConnection \/ Answer
             \/ UNCHANGED vars
      PROVE  ReservedFitsWindow'
  <2>1. UNCHANGED <<wnd0, res0, res, pc, seen, len, peer0, free, spent>>
    BY <1>7 DEF WindowUpdate, SettingsInitialWindow, Headers, RstStream, StopConnection,
                Answer, windows, reserved, frame, observed, vars
  <2>2. Frames' /\ SpentFits' /\ Within'
    BY <1>1, <2>1 DEF FrameIsReserved
  <2>3. Ledger'
    BY <1>1, <2>1, <1>3 DEF Ledger
  <2> QED
    BY <1>4, <2>2, <2>3
<1>8. ASSUME NEW h \in Handler,
             \/ Fill(h) \/ FillEnd(h) \/ Test(h) \/ Exit(h)
             \/ Respond(h) \/ NoHeader(h) \/ ErrorHeaders(h) \/ ErrorPage(h)
      PROVE  ReservedFitsWindow'
  <2>1. /\ UNCHANGED <<wnd0, res0, res, seen, len, peer0, free, spent>>
        /\ pc[h] \notin {"queue", "write", "payload", "account"}
        /\ pc'[h] \notin {"queue", "write", "payload", "account"}
        /\ \A g \in Handler : g # h => pc'[g] = pc[g]
    BY <1>8 DEF Fill, FillEnd, Test, Exit, Respond, NoHeader, ErrorHeaders,
                ErrorPage, Goto, TypeInv, TypeOK, windows, reserved, frame, observed
  <2>2. Frames' /\ SpentFits' /\ Within'
    BY <1>1, <2>1 DEF FrameIsReserved
  <2>3. Ledger'
    BY <1>1, <2>1, <1>3 DEF Ledger
  <2> QED
    BY <1>4, <2>2, <2>3
<1>9. ASSUME NEW h \in Handler, Tail(h) \/ ErrorHead(h)
      PROVE  ReservedFitsWindow'
  <2>1. /\ UNCHANGED <<wnd0, res0, res, seen, len, spent>>
        /\ pc[h] \notin {"queue", "write", "payload", "account"}
        /\ pc'[h] \notin {"queue", "write", "payload", "account"}
        /\ \A g \in Handler : g # h => pc'[g] = pc[g]
    BY <1>9 DEF Tail, ErrorHead, Goto, TypeInv, TypeOK,
                windows, reserved, frame
  <2>2. Frames' /\ SpentFits' /\ Within'
    BY <1>1, <2>1 DEF FrameIsReserved
  <2>3. peer0' + free' = peer0 + free
    <3>1. \E d \in Int : peer0' = peer0 - d /\ free' = free + d
      <4>1. tail[h] \in Nat /\ Size[h] \in Nat /\ peer0 \in Int /\ free \in Int
        BY DEF TypeInv, TypeOK
      <4>2. CASE Tail(h)
        <5>1. CASE StreamOf[h] \in reset
          BY <4>1, <4>2, <5>1 DEF Tail
        <5>2. CASE StreamOf[h] \notin reset
          BY <4>1, <4>2, <5>2 DEF Tail
        <5> QED
          BY <5>1, <5>2
      <4>3. CASE ErrorHead(h)
        BY <4>1, <4>3 DEF ErrorHead
      <4> QED
        BY <1>9, <4>2, <4>3
    <3> QED
      BY <3>1 DEF TypeInv, TypeOK
  <2>4. Ledger'
    BY <1>1, <2>1, <2>3, <1>3 DEF Ledger
  <2> QED
    BY <1>4, <2>2, <2>4
<1>10. ASSUME NEW h \in Handler, Window(h) PROVE ReservedFitsWindow'
  <2> DEFINE s == StreamOf[h]
             avail == Available(s)
             n == IF avail > 0 THEN avail ELSE 0
  <2>1. /\ pc[h] = "window" /\ pc' = [pc EXCEPT ![h] = "queue"]
        /\ seen' = [seen EXCEPT ![h] = avail]
        /\ res' = [res EXCEPT ![s] = n] /\ res0' = (res0 - res[s]) + n
        /\ UNCHANGED <<wnd0, len, spent, peer0, free>>
    BY <1>10 DEF Window, Reserve, Goto, windows, observed
  <2>2. s \in Stream /\ avail \in Int /\ n \in Nat
    BY DEF TypeInv, TypeOK, MinOf, Available, FrameSize
  <2>3. avail <= wnd0 - (res0 - res[s])
    BY <2>2 DEF TypeInv, TypeOK, MinOf, Available, FrameSize
  <2> HIDE DEF avail
  <2>4. spent[s] = 0
    BY <1>1, <2>1 DEF FrameIsReserved
  <2>5. Frames'
    <3>1. FrameIsReserved(h)'
      BY <2>1, <2>2, <2>4 DEF FrameIsReserved, TypeInv, TypeOK
    <3>2. ASSUME NEW g \in Handler, g # h PROVE FrameIsReserved(g)'
      BY <1>1, <2>1, <3>2, OtherFrames DEF TypeInv, TypeOK
    <3> QED
      BY <3>1, <3>2
  <2>6. SpentFits'
    BY <1>1, <2>1, <2>2, <2>4 DEF TypeInv, TypeOK
  <2>7. Within'
    BY <1>1, <2>1, <2>2, <2>3 DEF TypeInv, TypeOK
  <2>8. Ledger'
    BY <1>1, <2>1, <1>3 DEF Ledger
  <2> QED
    BY <1>4, <2>5, <2>6, <2>7, <2>8
<1>11. ASSUME NEW h \in Handler, NEW full \in BOOLEAN, QueueReady(h, full)
       PROVE  ReservedFitsWindow'
  <2> DEFINE s == StreamOf[h]
             n == FrameSize(h, full)
  <2>1. /\ pc[h] = "queue" /\ pc' = [pc EXCEPT ![h] = IF n = 0 THEN "test" ELSE "write"]
        /\ seen' = [seen EXCEPT ![h] = 0] /\ len' = [len EXCEPT ![h] = n]
        /\ res' = [res EXCEPT ![s] = n] /\ res0' = (res0 - res[s]) + n
        /\ UNCHANGED <<wnd0, spent, peer0, free>>
    BY <1>11 DEF QueueReady, Reserve, Goto, windows
  <2>2. s \in Stream /\ n \in Nat
    BY DEF TypeInv, TypeOK, MinOf, Available, FrameSize
  <2>3. n <= res[s]
    BY <1>1, <2>1, <2>2 DEF FrameIsReserved, TypeInv, TypeOK, MinOf, Available, FrameSize
  <2> HIDE DEF n
  <2>4. spent[s] = 0
    BY <1>1, <2>1 DEF FrameIsReserved
  <2>5. Frames'
    <3>1. FrameIsReserved(h)'
      BY <2>1, <2>2, <2>4 DEF FrameIsReserved, TypeInv, TypeOK
    <3>2. ASSUME NEW g \in Handler, g # h PROVE FrameIsReserved(g)'
      BY <1>1, <2>1, <3>2, OtherFrames DEF TypeInv, TypeOK
    <3> QED
      BY <3>1, <3>2
  <2>6. SpentFits'
    BY <1>1, <2>1, <2>2, <2>4 DEF TypeInv, TypeOK
  <2>7. Within'
    BY <1>1, <2>1, <2>2, <2>3 DEF TypeInv, TypeOK
  <2>8. Ledger'
    BY <1>1, <2>1, <1>3 DEF Ledger
  <2> QED
    BY <1>4, <2>5, <2>6, <2>7, <2>8
<1>12. ASSUME NEW h \in Handler, Write(h) PROVE ReservedFitsWindow'
  <2> DEFINE s == StreamOf[h]
  <2>1. /\ pc[h] = "write" /\ pc'[h] \in {"payload", "account"}
        /\ \A g \in Handler : g # h => pc'[g] = pc[g]
        /\ spent' = [spent EXCEPT ![s] = spent[s] + len[h]]
        /\ UNCHANGED <<wnd0, res0, res, seen, len>>
    BY <1>12 DEF Write, Goto, TypeInv, TypeOK, windows, reserved, frame
  <2>2. s \in Stream /\ len[h] \in Nat /\ spent[s] = 0 /\ res[s] = len[h]
    BY <1>1, <2>1 DEF FrameIsReserved, TypeInv, TypeOK
  <2>3. Frames'
    <3>1. FrameIsReserved(h)'
      BY <1>2, <2>1, <2>2 DEF FrameIsReserved, TypeInv, TypeOK
    <3>2. ASSUME NEW g \in Handler, g # h PROVE FrameIsReserved(g)'
      BY <1>1, <1>2, <2>1, <3>2, OtherFrames DEF TypeInv, TypeOK
    <3> QED
      BY <3>1, <3>2
  <2>4. SpentFits' /\ Within'
    BY <1>1, <1>2, <2>1, <2>2 DEF TypeInv, TypeOK
  <2>5. peer0' + free' = peer0 + free - len[h]
    BY <1>12 DEF Write, TypeInv, TypeOK
  <2>6. Total(spent') = Total(spent) + len[h]
    <3>1. Total([spent EXCEPT ![s] = len[h]]) = (Total(spent) - spent[s]) + len[h]
      BY <1>2, <2>2, TotalUpdate
    <3>2. spent' = [spent EXCEPT ![s] = len[h]]
      <4>1. spent[s] + len[h] = len[h]
        BY <2>2
      <4> QED
        BY <2>1, <4>1
    <3> QED
      BY <1>2, <2>2, <3>1, <3>2
  <2>7. Total(spent)' = Total(spent')
    BY DEF Total, Units
  <2>8. Ledger'
    BY <1>1, <1>2, <2>1, <2>2, <2>5, <2>6, <2>7 DEF Ledger, TypeInv, TypeOK
  <2> QED
    BY <1>4, <2>3, <2>4, <2>8
<1>p. ASSUME NEW h \in Handler, Payload(h) PROVE ReservedFitsWindow'
  <2>1. /\ UNCHANGED <<wnd0, res0, res, seen, len, peer0, free, spent>>
        /\ pc[h] = "payload" /\ pc'[h] = "account"
        /\ \A g \in Handler : g # h => pc'[g] = pc[g]
    BY <1>p DEF Payload, Goto, TypeInv, TypeOK, windows, reserved, frame, observed
  <2>2. Frames' /\ SpentFits' /\ Within'
    BY <1>1, <2>1 DEF FrameIsReserved
  <2>3. Ledger'
    BY <1>1, <2>1, <1>3 DEF Ledger
  <2> QED
    BY <1>4, <2>2, <2>3
<1>13. ASSUME NEW h \in Handler, Account(h) PROVE ReservedFitsWindow'
  <2> DEFINE s == StreamOf[h]
  <2>1. /\ pc[h] = "account" /\ pc' = [pc EXCEPT ![h] = "test"]
        /\ spent' = [spent EXCEPT ![s] = spent[s] - len[h]]
        /\ res' = [res EXCEPT ![s] = 0] /\ res0' = (res0 - res[s]) + 0
        /\ wnd0' = wnd0 - len[h] /\ len' = [len EXCEPT ![h] = 0]
        /\ UNCHANGED <<seen, peer0, free>>
    BY <1>13 DEF Account, Reserve, Goto
  <2>2. s \in Stream /\ len[h] \in Nat /\ spent[s] = len[h] /\ res[s] = len[h]
    BY <1>1, <2>1 DEF FrameIsReserved, TypeInv, TypeOK
  <2>3. spent' = [spent EXCEPT ![s] = 0]
    <3>1. spent[s] - len[h] = 0
      BY <2>2
    <3> QED
      BY <2>1, <3>1
  <2>4. Frames'
    <3>1. FrameIsReserved(h)'
      BY <1>2, <2>1, <2>2, <2>3 DEF FrameIsReserved, TypeInv, TypeOK
    <3>2. ASSUME NEW g \in Handler, g # h PROVE FrameIsReserved(g)'
      BY <1>1, <1>2, <2>1, <3>2, OtherFrames DEF TypeInv, TypeOK
    <3> QED
      BY <3>1, <3>2
  <2>5. SpentFits' /\ Within'
    BY <1>1, <1>2, <2>1, <2>2, <2>3 DEF TypeInv, TypeOK
  <2>6. Total(spent') = Total(spent) - len[h]
    <3>1. Total([spent EXCEPT ![s] = 0]) = (Total(spent) - spent[s]) + 0
      BY <1>2, <2>2, TotalUpdate
    <3> QED
      BY <1>2, <2>2, <2>3, <3>1
  <2>7. Total(spent)' = Total(spent')
    BY DEF Total, Units
  <2>8. Ledger'
    BY <1>1, <1>2, <2>1, <2>2, <2>6, <2>7 DEF Ledger, TypeInv, TypeOK
  <2> QED
    BY <1>4, <2>4, <2>5, <2>8
<1>14. ASSUME NEW h \in Handler, Release(h) PROVE ReservedFitsWindow'
  <2> DEFINE s == StreamOf[h]
  <2>1. /\ pc[h] = "release" /\ pc'[h] \in {"exit", "fill"}
        /\ \A g \in Handler : g # h => pc'[g] = pc[g]
        /\ res' = [res EXCEPT ![s] = 0] /\ res0' = (res0 - res[s]) + 0
        /\ UNCHANGED <<wnd0, seen, len, spent, peer0, free>>
    BY <1>14 DEF Release, Reserve, Goto, TypeInv, TypeOK, windows, frame, observed
  <2>2. s \in Stream /\ spent[s] = 0 /\ res[s] \in Nat
    BY <1>1, <2>1 DEF FrameIsReserved, TypeInv, TypeOK
  <2>3. Frames'
    <3>1. FrameIsReserved(h)'
      BY <2>1, <2>2 DEF FrameIsReserved
    <3>2. ASSUME NEW g \in Handler, g # h PROVE FrameIsReserved(g)'
      BY <1>1, <2>1, <3>2, OtherFrames DEF TypeInv, TypeOK
    <3> QED
      BY <3>1, <3>2
  <2>4. SpentFits' /\ Within'
    BY <1>1, <2>1, <2>2 DEF TypeInv, TypeOK
  <2>5. Ledger'
    BY <1>1, <2>1, <1>3 DEF Ledger
  <2> QED
    BY <1>4, <2>3, <2>4, <2>5
<1> QED
  BY <1>5, <1>6, <1>7, <1>8, <1>9, <1>10, <1>11, <1>12, <1>13, <1>14, <1>p, NextCases

LEMMA InitReservedFits == Init => ReservedFitsWindow
<1> SUFFICES ASSUME Init PROVE ReservedFitsWindow
  OBVIOUS
<1> USE ConstantsAssumption DEF Init
<1>1. \A h \in Handler : FrameIsReserved(h)
  BY DEF FrameIsReserved
<1>2. \A s \in Stream : spent[s] \in 0 .. res[s]
  OBVIOUS
<1>3. res0 <= wnd0
  OBVIOUS
<1>4. wnd0 = peer0 + free + Total(spent)
  BY TotalZero
<1> QED
  BY <1>1, <1>2, <1>3, <1>4 DEF ReservedFitsWindow

\* What is written but not accounted for is reserved, and what is reserved is
\* within the window: so it is within what the peer allows.
LEMMA FitsImpliesRespected ==
  ASSUME TypeInv, ReservationsMatch, ReservedFitsWindow
  PROVE  ConnWindowRespected
<1>1. spent \in [Stream -> Nat] /\ res \in [Stream -> Nat]
  BY DEF TypeInv, TypeOK, ReservedFitsWindow
<1>2. \A s \in Stream : spent[s] <= res[s]
  BY <1>1 DEF ReservedFitsWindow
<1>3. Total(spent) <= Total(res)
  BY <1>1, <1>2, TotalMonotone
<1>4. Total(spent) \in Nat /\ Total(res) \in Nat
  BY <1>1, TotalType
<1>5. res0 = Total(res) /\ res0 <= wnd0 /\ wnd0 = peer0 + free + Total(spent)
  BY DEF ReservationsMatch, ReservedFitsWindow
<1>6. wnd0 \in Int /\ peer0 \in Int /\ free \in Int
  BY DEF TypeInv, TypeOK
<1> QED
  BY <1>3, <1>4, <1>5, <1>6 DEF ConnWindowRespected

\* With one handler per stream, each handler's reservation covers its frame
\* and all reservations fit into the connection's window.
THEOREM ReservationsFit == OneHandlerPerStream => (Spec => []ReservedFitsWindow)
<1> SUFFICES ASSUME OneHandlerPerStream PROVE Spec => []ReservedFitsWindow
  OBVIOUS
<1>1. TypeInv /\ ReservedFitsWindow /\ [Next]_vars => ReservedFitsWindow'
  BY StepReservedFits
<1> QED
  BY <1>1, InitReservedFits, InitType, StepType, PTL DEF Spec

\* Reserved once, and within the window: both of the above.
THEOREM WindowsAreReserved == OneHandlerPerStream => (Spec => []WindowsReserved)
<1>1. ReservationsMatch /\ ReservedFitsWindow => WindowsReserved
  BY DEF WindowsReserved
<1> QED
  BY <1>1, ReservationsAddUp, ReservationsFit, PTL

\* The handlers of a connection, together and in every interleaving, never
\* send more accounted octets than the peer granted on the connection.
THEOREM ConnWindowSafe == OneHandlerPerStream => (Spec => []ConnWindowRespected)
<1> SUFFICES ASSUME OneHandlerPerStream PROVE Spec => []ConnWindowRespected
  OBVIOUS
<1>1. TypeInv /\ ReservationsMatch /\ ReservedFitsWindow => ConnWindowRespected
  BY FitsImpliesRespected
<1>2. Spec => []TypeInv
  BY InitType, StepType, PTL DEF Spec
<1> QED
  BY <1>1, <1>2, ReservationsAddUp, ReservationsFit, PTL

-----------------------------------------------------------------------------
(* The connection's window implements ConnCredit.                          *)

\* Only WINDOW_UPDATE gives credit and only Write uses it; the frames that
\* bypass the accounting leave the sum of peer0 and free alone.
LEMMA CreditStep ==
  ASSUME TypeInv, ConnWindowRespected', [Next]_vars
  PROVE  [Credit!Next]_(peer0 + free)
<1> USE ConstantsAssumption
<1>1. peer0 \in Int /\ free \in Int
  BY DEF TypeInv, TypeOK
<1>2. ASSUME \E d \in Nat : peer0' + free' = (peer0 + free) - d
      PROVE  [Credit!Next]_(peer0 + free)
  <2>1. PICK d \in Nat : peer0' + free' = (peer0 + free) - d
    BY <1>2
  <2>2. peer0' + free' \in Int /\ peer0' + free' >= 0
    BY <1>1, <2>1 DEF ConnWindowRespected
  <2>3. CASE d = 0
    BY <1>1, <2>1, <2>3
  <2>4. CASE d # 0
    BY <1>1, <2>1, <2>2, <2>4 DEF Credit!Next, Credit!Spend
  <2> QED
    BY <2>3, <2>4
<1>3. ASSUME peer0' = peer0, free' = free PROVE [Credit!Next]_(peer0 + free)
  BY <1>3
<1>4. ASSUME NEW n \in Increments, WindowUpdate0(n)
      PROVE  [Credit!Next]_(peer0 + free)
  <2>1. free' = free
    BY <1>4 DEF WindowUpdate0
  <2>2. CASE wnd0 + n > MaxWindow
    BY <1>3, <1>4, <2>1, <2>2 DEF WindowUpdate0
  <2>3. CASE ~(wnd0 + n > MaxWindow)
    <3>1. peer0' = peer0 + n /\ n \in 1 .. MaxWindow
      BY <1>4, <2>3 DEF WindowUpdate0
    <3>2. peer0' + free' \in Int /\ peer0' + free' > peer0 + free
      BY <1>1, <2>1, <3>1
    <3> QED
      BY <3>2 DEF Credit!Next, Credit!Grant
  <2> QED
    BY <2>2, <2>3
<1>5. ASSUME NEW h \in Handler, Write(h) PROVE [Credit!Next]_(peer0 + free)
  <2>1. len[h] \in Nat
    BY DEF TypeInv, TypeOK
  <2>2. peer0' + free' = (peer0 + free) - len[h]
    BY <1>5 DEF Write, TypeInv, TypeOK
  <2> QED
    BY <1>2, <2>1, <2>2
<1>6. ASSUME NEW h \in Handler, Tail(h) \/ ErrorHead(h)
      PROVE  [Credit!Next]_(peer0 + free)
  <2>1. tail[h] \in Nat /\ Size[h] \in Nat
    BY DEF TypeInv, TypeOK
  <2>2. CASE Tail(h) /\ StreamOf[h] \in reset
    BY <1>3, <2>2 DEF Tail
  <2>3. CASE Tail(h) /\ StreamOf[h] \notin reset
    <3>1. peer0' = peer0 - tail[h] /\ free' = free + tail[h]
      BY <2>3 DEF Tail
    <3> QED
      BY <1>1, <2>1, <3>1
  <2>4. CASE ErrorHead(h)
    <3>1. peer0' = peer0 - Size[h] /\ free' = free + Size[h]
      BY <2>4 DEF ErrorHead
    <3> QED
      BY <1>1, <2>1, <3>1
  <2> QED
    BY <1>6, <2>2, <2>3, <2>4
<1>7. ASSUME NEW h \in Handler,
             \/ Dispatch(h) \/ Fill(h) \/ FillEnd(h) \/ Test(h) \/ Window(h)
             \/ \E full \in BOOLEAN : QueueReady(h, full)
             \/ Respond(h) \/ NoHeader(h) \/ ErrorHeaders(h) \/ ErrorPage(h)
             \/ Payload(h) \/ Account(h) \/ Release(h) \/ Exit(h)
      PROVE  peer0' = peer0 /\ free' = free
  BY <1>7 DEF Dispatch, Fill, FillEnd, Test, Window, QueueReady, Respond, NoHeader,
              ErrorHeaders, ErrorPage, Payload, Account, Release, Exit, observed
<1>8. ASSUME \/ \E s \in Stream, n \in Increments : WindowUpdate(s, n)
             \/ \E v \in WindowSettings : SettingsInitialWindow(v)
             \/ \E s \in Stream : Headers(s) \/ RstStream(s)
             \/ StopConnection \/ Answer
             \/ UNCHANGED vars
      PROVE  peer0' = peer0 /\ free' = free
  BY <1>8 DEF WindowUpdate, SettingsInitialWindow, Headers, RstStream, StopConnection,
              Answer, observed, vars
<1> QED
  BY <1>3, <1>4, <1>5, <1>6, <1>7, <1>8, NextCases

\* Seen from the peer, the handlers, reservations and queues of a connection
\* are one credit that is granted and spent and never overdrawn.
THEOREM ImplementsCredit == OneHandlerPerStream => (Spec => CreditSpec)
<1> SUFFICES ASSUME OneHandlerPerStream PROVE Spec => CreditSpec
  OBVIOUS
<1>1. Init => Credit!Init
  BY ConstantsAssumption DEF Init, Credit!Init
<1>2. TypeInv /\ ConnWindowRespected' /\ [Next]_vars
      => [Credit!Next]_(peer0 + free)
  BY CreditStep
<1>3. Spec => []TypeInv
  BY InitType, StepType, PTL DEF Spec
<1> QED
  BY <1>1, <1>2, <1>3, ConnWindowSafe, PTL DEF Spec, CreditSpec, Credit!Spec

-----------------------------------------------------------------------------
(* One handler per stream: no stream's window is overrun.                  *)

\* The window the server believes a stream to have is not more than the peer's,
\* but for a frame that is written and not yet accounted for, until the last
\* frames that ask no window (fnAfterCgi, SendErrorRespons: ErrorHead).  What a handler
\* has seen of it is still there, unless SETTINGS took it away since.
StreamAt(h) ==
  LET s == StreamOf[h] IN
  /\ pc[h] \notin {"payload", "account", "page", "exit", "done"} => wnd[s] <= peer[s]
  /\ pc[h] \in {"payload", "account"} => wnd[s] <= peer[s] + len[h]
  /\ pc[h] # "idle" => s \in open
  /\ h \notin stale =>
       /\ pc[h] = "queue" => seen[h] <= wnd[s]
       /\ pc[h] = "write" => len[h] <= wnd[s]

StreamsFit == \A h \in Handler : StreamAt(h)

\* A step of one handler leaves the stream of another alone.
LEMMA OtherStreams ==
  ASSUME OneHandlerPerStream, TypeInv,
         NEW h \in Handler, NEW g \in Handler, g # h, StreamAt(g),
         pc'[g] = pc[g], seen'[g] = seen[g], len'[g] = len[g], open' = open,
         g \in stale => g \in stale',
         \A s \in Stream : s # StreamOf[h] => wnd'[s] = wnd[s] /\ peer'[s] = peer[s]
  PROVE  StreamAt(g)'
<1>1. StreamOf[g] \in Stream /\ StreamOf[g] # StreamOf[h]
  BY ConstantsAssumption DEF OneHandlerPerStream
<1> QED
  BY <1>1 DEF StreamAt

LEMMA StepStreamsFit ==
  ASSUME OneHandlerPerStream, TypeInv, StreamsFit, [Next]_vars
  PROVE  StreamsFit'
<1> USE ConstantsAssumption
<1>t. /\ wnd \in [Stream -> Int] /\ peer \in [Stream -> Int] /\ initWnd \in Int
      /\ len \in [Handler -> Nat] /\ seen \in [Handler -> Int]
      /\ pc \in [Handler -> PCs] /\ StreamOf \in [Handler -> Stream]
      /\ stale \subseteq Handler
  BY DEF TypeInv, TypeOK
<1>1. ASSUME NEW s \in Stream, Headers(s)
      PROVE  StreamsFit'
  <2>1. /\ s \notin open /\ open' = open \cup {s}
        /\ wnd' = [wnd EXCEPT ![s] = initWnd] /\ peer' = [peer EXCEPT ![s] = initWnd]
        /\ UNCHANGED <<pc, len, seen, stale>>
    BY <1>1 DEF Headers, frame
  <2> SUFFICES ASSUME NEW h \in Handler PROVE StreamAt(h)'
    BY DEF StreamsFit
  <2>2. CASE StreamOf[h] = s
    <3>1. pc[h] = "idle"
      BY <2>1, <2>2 DEF StreamsFit, StreamAt
    <3> QED
      BY <1>t, <2>1, <2>2, <3>1 DEF StreamAt
  <2>3. CASE StreamOf[h] # s
    BY <1>t, <2>1, <2>3 DEF StreamsFit, StreamAt
  <2> QED
    BY <2>2, <2>3
<1>2. ASSUME NEW s \in Stream, NEW n \in Increments, WindowUpdate(s, n)
      PROVE  StreamsFit'
  <2>1. /\ wnd' = [wnd EXCEPT ![s] = @ + n] /\ peer' = [peer EXCEPT ![s] = @ + n]
        /\ UNCHANGED <<pc, len, seen, stale, open>>
    BY <1>2 DEF WindowUpdate, frame, conn
  <2>2. n \in Nat
    OBVIOUS
  <2> QED
    BY <1>t, <2>1, <2>2 DEF StreamsFit, StreamAt
<1>3. ASSUME NEW v \in WindowSettings, SettingsInitialWindow(v)
      PROVE  StreamsFit'
  <2> SUFFICES ASSUME NEW h \in Handler PROVE StreamAt(h)'
    BY DEF StreamsFit
  <2> DEFINE s == StreamOf[h]
  <2>1. UNCHANGED <<pc, len, seen, open>> /\ stale \subseteq stale'
    BY <1>3 DEF SettingsInitialWindow, frame, conn
  <2>2. v \in Int /\ s \in Stream
    BY <1>t
  <2>3. \/ s \in open /\ wnd'[s] = wnd[s] + (v - initWnd) /\ peer'[s] = peer[s] + (v - initWnd)
        \/ s \notin open /\ wnd'[s] = wnd[s] /\ peer'[s] = peer[s]
    BY <1>3, <2>2 DEF SettingsInitialWindow
  <2>4. StreamAt(h)
    BY DEF StreamsFit
  <2>5. CASE v < initWnd
    <3>1. h \notin stale' => pc[h] \notin {"queue", "write"}
      BY <1>3, <2>5 DEF SettingsInitialWindow
    <3> QED
      BY <1>t, <2>1, <2>2, <2>3, <2>4, <3>1 DEF StreamAt
  <2>6. CASE ~(v < initWnd)
    <3>1. wnd[s] <= wnd'[s]
      BY <1>t, <2>2, <2>3, <2>6
    <3>2. wnd'[s] \in Int /\ peer'[s] \in Int
      BY <1>t, <2>2, <2>3
    <3> QED
      BY <1>t, <2>1, <2>2, <2>3, <2>4, <3>1, <3>2 DEF StreamAt
  <2> QED
    BY <2>5, <2>6
<1>4. CASE \/ \E n \in Increments : WindowUpdate0(n)
           \/ \E s \in Stream : RstStream(s)
           \/ StopConnection \/ Answer
           \/ UNCHANGED vars
  BY <1>4 DEF StreamsFit, StreamAt, WindowUpdate0, RstStream, StopConnection, Answer,
     vars, windows, frame, observed, conn
<1>5. ASSUME NEW h \in Handler, Dispatch(h)
      PROVE  StreamsFit'
  <2>1. /\ pc[h] = "idle" /\ StreamOf[h] \in open /\ pc'[h] \in {"error", "headers"}
        /\ \A g \in Handler : g # h => pc'[g] = pc[g]
        /\ UNCHANGED <<wnd, peer, len, seen, stale, open>>
    BY <1>t, <1>5 DEF Dispatch, Goto, windows, frame, observed, conn
  <2> QED
    BY <1>t, <2>1 DEF StreamsFit, StreamAt
<1>6. ASSUME NEW h \in Handler,
             \/ Fill(h) \/ FillEnd(h) \/ Test(h) \/ Release(h)
             \/ Respond(h) \/ NoHeader(h) \/ ErrorHeaders(h)
      PROVE  StreamsFit'
  <2>1. /\ pc[h] \in {"headers", "fill", "test", "release", "error"}
        /\ pc'[h] \in {"test", "tail", "exit", "window", "release", "fill", "errordata"}
        /\ \A g \in Handler : g # h => pc'[g] = pc[g]
        /\ UNCHANGED <<wnd, peer, len, seen, stale, open>>
    BY <1>t, <1>6 DEF Fill, FillEnd, Test, Release, Respond, NoHeader, ErrorHeaders, Goto,
       windows, frame, observed, conn
  <2> QED
    BY <1>t, <2>1 DEF StreamsFit, StreamAt
<1>7. ASSUME NEW h \in Handler, Window(h)
      PROVE  StreamsFit'
  <2>1. /\ pc[h] = "window" /\ pc' = [pc EXCEPT ![h] = "queue"]
        /\ seen' = [seen EXCEPT ![h] = Available(StreamOf[h])]
        /\ UNCHANGED <<wnd, peer, len, stale, open>>
    BY <1>7 DEF Window, Goto, windows, observed, conn
  <2>2. Available(StreamOf[h]) <= wnd[StreamOf[h]]
    BY <1>t DEF Available, MinOf, TypeInv, TypeOK
  <2> QED
    BY <1>t, <2>1, <2>2 DEF StreamsFit, StreamAt
<1>8. ASSUME NEW h \in Handler, NEW full \in BOOLEAN, QueueReady(h, full)
      PROVE  StreamsFit'
  <2> DEFINE n == FrameSize(h, full)
  <2>1. /\ pc[h] = "queue" /\ len' = [len EXCEPT ![h] = n] /\ seen' = [seen EXCEPT ![h] = 0]
        /\ stale' = (IF n = 0 THEN stale \ {h} ELSE stale)
        /\ pc' = [pc EXCEPT ![h] = IF n = 0 THEN "test" ELSE "write"]
        /\ UNCHANGED <<wnd, peer, open>>
    BY <1>8 DEF QueueReady, Goto, windows, conn
  <2>2. n # 0 => n <= seen[h]
    BY <1>t DEF FrameSize, MinOf, TypeInv, TypeOK
  <2>3. StreamAt(h)'
    <3>1. CASE n = 0
      BY <1>t, <2>1, <3>1 DEF StreamsFit, StreamAt
    <3>2. CASE n # 0
      <4>1. n \in Int
        BY <1>t DEF FrameSize, MinOf, TypeInv, TypeOK
      <4> QED
        BY <1>t, <2>1, <2>2, <3>2, <4>1 DEF StreamsFit, StreamAt
    <3> QED
      BY <3>1, <3>2
  <2>4. ASSUME NEW g \in Handler, g # h PROVE StreamAt(g)'
    BY <1>t, <2>1, <2>4, OtherStreams DEF StreamsFit
  <2> QED
    BY <2>3, <2>4 DEF StreamsFit
<1>9. ASSUME NEW h \in Handler, Write(h)
      PROVE  StreamsFit'
  <2> DEFINE s == StreamOf[h]
  <2>1. /\ pc[h] = "write" /\ pc'[h] \in {"payload", "account"}
        /\ \A g \in Handler : g # h => pc'[g] = pc[g]
        /\ stale' = stale \ {h}
        /\ peer' = peer \/ peer' = [peer EXCEPT ![s] = @ - len[h]]
        /\ UNCHANGED <<wnd, len, seen, open>>
    BY <1>t, <1>9 DEF Write, Goto, windows, frame, conn
  <2>2. StreamAt(h)'
    BY <1>t, <2>1 DEF StreamsFit, StreamAt
  <2>3. ASSUME NEW g \in Handler, g # h PROVE StreamAt(g)'
    BY <1>t, <2>1, <2>3, OtherStreams DEF StreamsFit
  <2> QED
    BY <2>2, <2>3 DEF StreamsFit
<1>p. ASSUME NEW h \in Handler, Payload(h)
      PROVE  StreamsFit'
  <2>1. /\ pc[h] = "payload" /\ pc'[h] = "account"
        /\ \A g \in Handler : g # h => pc'[g] = pc[g]
        /\ UNCHANGED <<wnd, peer, len, seen, stale, open>>
    BY <1>t, <1>p DEF Payload, Goto, windows, frame, observed, conn
  <2> QED
    BY <1>t, <2>1 DEF StreamsFit, StreamAt
<1>10. ASSUME NEW h \in Handler, Account(h)
       PROVE  StreamsFit'
  <2> DEFINE s == StreamOf[h]
  <2>1. /\ pc[h] = "account" /\ pc' = [pc EXCEPT ![h] = "test"]
        /\ wnd' = [wnd EXCEPT ![s] = @ - len[h]] /\ len' = [len EXCEPT ![h] = 0]
        /\ UNCHANGED <<peer, seen, stale, open>>
    BY <1>10 DEF Account, Goto, conn
  <2>2. StreamAt(h)'
    BY <1>t, <2>1 DEF StreamsFit, StreamAt
  <2>3. ASSUME NEW g \in Handler, g # h PROVE StreamAt(g)'
    BY <1>t, <2>1, <2>3, OtherStreams DEF StreamsFit
  <2> QED
    BY <2>2, <2>3 DEF StreamsFit
<1>11. ASSUME NEW h \in Handler, Tail(h) \/ ErrorHead(h) \/ ErrorPage(h) \/ Exit(h)
       PROVE  StreamsFit'
  <2> DEFINE s == StreamOf[h]
  <2>1. /\ pc[h] \in {"tail", "errordata", "page", "exit"}
        /\ pc'[h] \in {"page", "exit", "done"}
        /\ \A g \in Handler : g # h => pc'[g] = pc[g]
        /\ \A r \in Stream : r # s => peer'[r] = peer[r]
        /\ UNCHANGED <<wnd, len, seen, stale, open>>
    BY <1>t, <1>11 DEF Tail, ErrorHead, ErrorPage, Exit, Goto, windows, frame, conn, observed
  <2>2. StreamAt(h)'
    BY <1>t, <2>1 DEF StreamsFit, StreamAt
  <2>3. ASSUME NEW g \in Handler, g # h PROVE StreamAt(g)'
    BY <1>t, <2>1, <2>3, OtherStreams DEF StreamsFit
  <2> QED
    BY <2>2, <2>3 DEF StreamsFit
<1> QED
  BY <1>1, <1>2, <1>3, <1>4, <1>5, <1>6, <1>7, <1>8, <1>9, <1>10, <1>11, <1>p, NextCases

\* With one handler per stream no frame is larger than what the peer allows on
\* its stream, unless SETTINGS made that smaller since the handler looked.
THEOREM StreamWindowSafe == OneHandlerPerStream => (Spec => []StreamWindowRespected)
<1> SUFFICES ASSUME OneHandlerPerStream PROVE Spec => []StreamWindowRespected
  OBVIOUS
<1>1. Init => StreamsFit
  BY ConstantsAssumption DEF Init, StreamsFit, StreamAt
<1>2. TypeInv /\ StreamsFit /\ [Next]_vars => StreamsFit'
  BY StepStreamsFit
<1>3. TypeInv /\ StreamsFit => StreamWindowRespected
  BY ConstantsAssumption DEF TypeInv, TypeOK, StreamsFit, StreamAt, StreamWindowRespected
<1> QED
  BY <1>1, <1>2, <1>3, InitType, StepType, PTL DEF Spec

-----------------------------------------------------------------------------
(* Each response ends its stream, once, however the windows cut it.          *)

\* Some frame of the response carries END_STREAM: none does for an empty file.
Marked(h) == ~(Kind[h] = "file" /\ Size[h] = 0)

\* The last frame of a file or of compressed output was written.
Finished(h) ==
  /\ Kind[h] \in {"file", "gzip", "brotli"} /\ todo[h] = 0
  /\ \/ pc[h] \in {"test", "release", "fill"} /\ rest[h] = 0
     \/ pc[h] \in {"payload", "account"} /\ rest[h] = len[h]

\* The places of each send loop.
PlaceOf(h) ==
  /\ Kind[h] = "file" => todo[h] = 0 /\ pc[h] # "fill"
  /\ Kind[h] = "error" =>
       pc[h] \in {"idle", "error", "errordata", "page", "exit", "done"}
  /\ pc[h] = "tail" => Kind[h] = "cgi"
  /\ pc[h] \in {"error", "errordata", "page"} => Kind[h] = "error"
  /\ pc[h] = "payload" => Kind[h] = "file"
  /\ pc[h] = "headers" => IF Kind[h] = "file" THEN rest[h] = Size[h]
                          ELSE rest[h] = 0 /\ todo[h] = Size[h]

Wanted(h) == ~stop /\ StreamOf[h] \notin reset

\* END_STREAM was written if the handler is behind its last frame and, but for
\* brotli, only then; a loop that nobody stopped was left because all was sent.
EndAt(h) ==
  LET s == StreamOf[h] IN
  /\ PlaceOf(h)
  /\ Finished(h) /\ Marked(h) => wire[s] # "open"
  /\ Kind[h] # "brotli" /\ wire[s] # "open"
       => Finished(h) \/ pc[h] \in {"page", "exit", "done"}
  /\ pc[h] \in {"window", "queue", "write", "payload", "account"} => rest[h] > 0
  /\ pc[h] \in {"release", "fill"} /\ Wanted(h) => rest[h] = 0
  /\ pc[h] = "page" => wire[s] # "open"
  /\ pc[h] = "exit" /\ Wanted(h) /\ Marked(h) => wire[s] # "open"

EndInv == NothingAfterEnd /\ \A h \in Handler : EndAt(h)

\* A step that leaves a handler, and what its stream looks like, as they are.
LEMMA EndKept ==
  ASSUME NEW g \in Handler, EndAt(g),
         pc'[g] = pc[g], rest'[g] = rest[g], todo'[g] = todo[g], len'[g] = len[g],
         wire'[StreamOf[g]] = wire[StreamOf[g]],
         stop => stop', reset \subseteq reset'
  PROVE  EndAt(g)'
BY DEF EndAt, PlaceOf, Finished, Marked, Wanted

\* A step of one handler is seen by no other.
LEMMA OtherEnds ==
  ASSUME OneHandlerPerStream, NEW h \in Handler, \A g \in Handler : EndAt(g),
         \A g \in Handler : g # h => /\ pc'[g] = pc[g] /\ rest'[g] = rest[g]
                                     /\ todo'[g] = todo[g] /\ len'[g] = len[g],
         \A s \in Stream : s # StreamOf[h] => wire'[s] = wire[s],
         stop' = stop, reset \subseteq reset',
         Kind[h] # "brotli" => wire'[StreamOf[h]] # "after",
         NothingAfterEnd, EndAt(h)'
  PROVE  EndInv'
<1>1. ASSUME NEW g \in Handler, g # h PROVE EndAt(g)'
  <2>1. StreamOf[g] \in Stream /\ StreamOf[g] # StreamOf[h]
    BY <1>1, ConstantsAssumption DEF OneHandlerPerStream
  <2> QED
    BY <1>1, <2>1, EndKept
<1>2. ASSUME NEW g \in Handler, Kind[g] # "brotli"
      PROVE  wire'[StreamOf[g]] # "after"
  <2>1. CASE g = h
    BY <1>2, <2>1
  <2>2. CASE g # h
    <3>1. StreamOf[g] \in Stream /\ StreamOf[g] # StreamOf[h]
      BY <2>2, ConstantsAssumption DEF OneHandlerPerStream
    <3> QED
      BY <1>2, <3>1 DEF NothingAfterEnd
  <2> QED
    BY <2>1, <2>2
<1>3. NothingAfterEnd'
  BY <1>2 DEF NothingAfterEnd
<1> QED
  BY <1>1, <1>3 DEF EndInv

LEMMA InitEnd == Init => EndInv
BY ConstantsAssumption DEF Init, EndInv, NothingAfterEnd, EndAt, PlaceOf, Finished, Marked, Wanted

LEMMA StepEnd ==
  ASSUME OneHandlerPerStream, TypeInv, EndInv, [Next]_vars
  PROVE  EndInv'
<1> USE ConstantsAssumption
<1>t. /\ len \in [Handler -> Nat] /\ rest \in [Handler -> Nat] /\ todo \in [Handler -> Nat]
      /\ pc \in [Handler -> PCs] /\ StreamOf \in [Handler -> Stream]
      /\ wire \in [Stream -> {"open", "ended", "after"}]
      /\ Kind \in [Handler -> Kinds] /\ Size \in [Handler -> Nat]
  BY DEF TypeInv, TypeOK
<1>e. NothingAfterEnd /\ \A g \in Handler : EndAt(g)
  BY DEF EndInv
<1>1. CASE \/ \E s \in Stream : Headers(s) \/ RstStream(s)
           \/ \E n \in Increments : WindowUpdate0(n)
           \/ \E s \in Stream, n \in Increments : WindowUpdate(s, n)
           \/ \E v \in WindowSettings : SettingsInitialWindow(v)
           \/ StopConnection \/ Answer
           \/ UNCHANGED vars
  <2>1. /\ UNCHANGED <<pc, rest, todo, len, wire>>
        /\ stop => stop'
        /\ reset \subseteq reset'
    BY <1>1 DEF Headers, RstStream, WindowUpdate0, WindowUpdate, SettingsInitialWindow,
       StopConnection, Answer, vars, windows, conn, frame, body, observed
  <2>2. ASSUME NEW g \in Handler PROVE EndAt(g)'
    BY <1>e, <2>1, EndKept
  <2> QED
    BY <1>e, <2>1, <2>2 DEF EndInv, NothingAfterEnd
<1>2. ASSUME NEW h \in Handler, Dispatch(h) PROVE EndInv'
  <2>1. /\ pc[h] = "idle"
        /\ rest' = [rest EXCEPT ![h] = IF Kind[h] = "file" THEN Size[h] ELSE 0]
        /\ todo' = [todo EXCEPT ![h] = IF Kind[h] = "file" THEN 0 ELSE Size[h]]
        /\ pc' = [pc EXCEPT ![h] = IF Kind[h] = "error" THEN "error" ELSE "headers"]
        /\ UNCHANGED <<len, wire, stop, reset>>
    BY <1>2 DEF Dispatch, Goto, conn, frame, observed
  <2>2. EndAt(h)'
    BY <1>t, <1>e, <2>1 DEF EndAt, PlaceOf, Finished, Marked, Wanted
  <2> QED
    BY <1>t, <1>e, <2>1, <2>2, OtherEnds DEF NothingAfterEnd
<1>r. ASSUME NEW h \in Handler, Respond(h) PROVE EndInv'
  <2>1. /\ pc[h] = "headers"
        /\ pc' = [pc EXCEPT ![h] = IF Kind[h] = "file" THEN "test" ELSE "fill"]
        /\ UNCHANGED <<len, rest, todo, wire, stop, reset>>
    BY <1>r DEF Respond, Goto, conn, frame, body
  <2>2. EndAt(h) /\ Kind[h] # "error"
    BY <1>e, <2>1 DEF EndAt, PlaceOf
  <2>3. Kind[h] \in {"gzip", "brotli"} => Size[h] > 0
    BY EncoderAssumption
  <2>4. ~(Finished(h)' /\ Marked(h)')
    BY <1>t, <2>1, <2>2, <2>3 DEF EndAt, PlaceOf, Finished, Marked
  <2>5. EndAt(h)'
    BY <1>t, <2>1, <2>2, <2>4 DEF EndAt, PlaceOf, Finished, Marked, Wanted
  <2> QED
    BY <1>t, <1>e, <2>1, <2>5, OtherEnds DEF NothingAfterEnd
<1>3. ASSUME NEW h \in Handler, Fill(h) PROVE EndInv'
  <2>1. /\ pc[h] = "fill" /\ todo[h] > 0 /\ pc' = [pc EXCEPT ![h] = "test"]
        /\ UNCHANGED <<len, wire, stop, reset>>
    BY <1>3 DEF Fill, Goto, conn, frame, observed
  <2> DEFINE Kept(n) == IF Kind[h] = "cgi" THEN MinOf(tail[h] + n, TailSize) ELSE 0
  <2>2. PICK n \in 1 .. MinOf(BufSize, todo[h]) :
          /\ todo' = [todo EXCEPT ![h] = @ - n]
          /\ rest' = [rest EXCEPT ![h] = (tail[h] + n) - Kept(n)]
    BY <1>3 DEF Fill
  <2>3. Kind[h] # "cgi" => rest'[h] > 0
    BY <1>t, <2>2 DEF TypeInv, TypeOK, MinOf
  <2>4. EndAt(h) /\ Kind[h] # "file"
    BY <1>t, <1>e, <2>1 DEF EndAt, PlaceOf
  <2>5. EndAt(h)'
    BY <1>t, <2>1, <2>3, <2>4 DEF EndAt, PlaceOf, Finished, Marked, Wanted
  <2> QED
    BY <1>t, <1>e, <2>1, <2>2, <2>5, OtherEnds DEF NothingAfterEnd
<1>4. ASSUME NEW h \in Handler, FillEnd(h) PROVE EndInv'
  <2>1. /\ pc[h] = "fill" /\ (todo[h] = 0 \/ ~Wanted(h))
        /\ pc' = [pc EXCEPT ![h] = IF Kind[h] = "cgi" /\ Wanted(h) THEN "tail" ELSE "exit"]
        /\ UNCHANGED <<len, rest, todo, wire, stop, reset>>
    BY <1>4 DEF FillEnd, Goto, Wanted, conn, frame, body, observed
  <2>2. EndAt(h)
    BY <1>e
  <2>3. Kind[h] \in {"gzip", "brotli", "cgi"}
    BY <1>t, <2>1, <2>2 DEF EndAt, PlaceOf, Kinds
  <2>4. EndAt(h)'
    BY <1>t, <2>1, <2>2, <2>3 DEF EndAt, PlaceOf, Finished, Marked, Wanted
  <2> QED
    BY <1>t, <1>e, <2>1, <2>4, OtherEnds DEF NothingAfterEnd
<1>5. ASSUME NEW h \in Handler, Test(h) PROVE EndInv'
  <2>1. /\ pc[h] = "test"
        /\ pc' = [pc EXCEPT ![h] = IF Continues(h) THEN "window" ELSE "release"]
        /\ UNCHANGED <<len, rest, todo, wire, stop, reset>>
    BY <1>5 DEF Test, Goto, conn, frame, body, observed
  <2>2. /\ Continues(h) => rest[h] > 0
        /\ ~Continues(h) /\ Wanted(h) => rest[h] = 0
    BY <1>t DEF Continues, Wanted
  <2>3. EndAt(h)
    BY <1>e
  <2>4. EndAt(h)'
    BY <1>t, <2>1, <2>2, <2>3 DEF EndAt, PlaceOf, Finished, Marked, Wanted
  <2> QED
    BY <1>t, <1>e, <2>1, <2>4, OtherEnds DEF NothingAfterEnd
<1>6. ASSUME NEW h \in Handler, Window(h) PROVE EndInv'
  <2>1. /\ pc[h] = "window" /\ pc' = [pc EXCEPT ![h] = "queue"]
        /\ UNCHANGED <<len, rest, todo, wire, stop, reset>>
    BY <1>6 DEF Window, Goto, conn, body, observed
  <2>2. EndAt(h)'
    BY <1>t, <1>e, <2>1 DEF EndAt, PlaceOf, Finished, Marked, Wanted
  <2> QED
    BY <1>t, <1>e, <2>1, <2>2, OtherEnds DEF NothingAfterEnd
<1>7. ASSUME NEW h \in Handler, NEW full \in BOOLEAN, QueueReady(h, full) PROVE EndInv'
  <2>1. /\ pc[h] = "queue" /\ len' = [len EXCEPT ![h] = FrameSize(h, full)]
        /\ pc' = [pc EXCEPT ![h] = IF FrameSize(h, full) = 0 THEN "test" ELSE "write"]
        /\ UNCHANGED <<rest, todo, wire, stop, reset>>
    BY <1>7 DEF QueueReady, Goto, conn, body
  <2>2. EndAt(h)'
    BY <1>t, <1>e, <2>1 DEF EndAt, PlaceOf, Finished, Marked, Wanted
  <2> QED
    BY <1>t, <1>e, <2>1, <2>2, OtherEnds DEF NothingAfterEnd
<1>8. ASSUME NEW h \in Handler, Write(h) PROVE EndInv'
  <2> DEFINE s == StreamOf[h]
  <2>1. /\ pc[h] = "write"
        /\ pc' = [pc EXCEPT ![h] = IF Kind[h] = "file" THEN "payload" ELSE "account"]
        /\ UNCHANGED <<len, rest, todo, stop, reset>>
        /\ \/ Kind[h] = "cgi" /\ s \in reset /\ wire' = wire
           \/ OnWire(h, EndFlag(h))
    BY <1>8 DEF Write, Goto, conn, frame, body
  <2>2. EndAt(h) /\ (Kind[h] # "brotli" => wire[s] = "open")
    BY <1>e, <2>1 DEF EndAt, Finished
  <2>3. EndFlag(h) <=> \/ Kind[h] \in {"file", "gzip"} /\ todo[h] = 0 /\ rest[h] = len[h]
                       \/ Kind[h] = "brotli" /\ todo[h] = 0
    BY <2>2 DEF EndFlag, EndAt, PlaceOf
  <2>4. /\ wire[s] = "open" => wire'[s] = IF EndFlag(h) THEN "ended" ELSE "open"
        /\ wire[s] # "open" => wire'[s] # "open"
        /\ \A r \in Stream : r # s => wire'[r] = wire[r]
    BY <1>t, <2>1, <2>2, <2>3 DEF OnWire
  <2>5. Finished(h)' => EndFlag(h)
    BY <1>t, <2>1, <2>3 DEF Finished
  <2>6. Kind[h] # "brotli" /\ EndFlag(h) => Finished(h)'
    BY <1>t, <2>1, <2>3 DEF Finished
  <2>7. EndAt(h)'
    BY <1>t, <2>1, <2>2, <2>4, <2>5, <2>6 DEF EndAt, PlaceOf, Wanted
  <2>8. Kind[h] # "brotli" => wire'[s] # "after"
    BY <2>2, <2>4
  <2> QED
    BY <1>t, <1>e, <2>1, <2>4, <2>7, <2>8, OtherEnds
<1>p. ASSUME NEW h \in Handler, Payload(h) PROVE EndInv'
  <2>1. /\ pc[h] = "payload" /\ pc' = [pc EXCEPT ![h] = "account"]
        /\ UNCHANGED <<len, rest, todo, wire, stop, reset>>
    BY <1>p DEF Payload, Goto, conn, frame, body, observed
  <2>2. EndAt(h)'
    BY <1>t, <1>e, <2>1 DEF EndAt, PlaceOf, Finished, Marked, Wanted
  <2> QED
    BY <1>t, <1>e, <2>1, <2>2, OtherEnds DEF NothingAfterEnd
<1>9. ASSUME NEW h \in Handler, Account(h) PROVE EndInv'
  <2>1. /\ pc[h] = "account" /\ pc' = [pc EXCEPT ![h] = "test"]
        /\ rest' = [rest EXCEPT ![h] = @ - len[h]] /\ len' = [len EXCEPT ![h] = 0]
        /\ UNCHANGED <<todo, wire, stop, reset>>
    BY <1>9 DEF Account, Goto, conn
  <2>2. EndAt(h) /\ (rest'[h] = 0 <=> rest[h] = len[h])
    BY <1>t, <1>e, <2>1
  <2>3. EndAt(h)'
    BY <1>t, <2>1, <2>2 DEF EndAt, PlaceOf, Finished, Marked, Wanted
  <2> QED
    BY <1>t, <1>e, <2>1, <2>3, OtherEnds DEF NothingAfterEnd
<1>10. ASSUME NEW h \in Handler, Release(h) PROVE EndInv'
  <2>1. /\ pc[h] = "release"
        /\ pc' = [pc EXCEPT ![h] = IF Kind[h] = "file" THEN "exit" ELSE "fill"]
        /\ UNCHANGED <<len, rest, todo, wire, stop, reset>>
    BY <1>10 DEF Release, Goto, conn, frame, body, observed
  <2>2. EndAt(h)
    BY <1>e
  <2>3. EndAt(h)'
    BY <1>t, <2>1, <2>2 DEF EndAt, PlaceOf, Finished, Marked, Wanted
  <2> QED
    BY <1>t, <1>e, <2>1, <2>3, OtherEnds DEF NothingAfterEnd
<1>11. ASSUME NEW h \in Handler, Tail(h) \/ NoHeader(h) \/ ErrorHeaders(h) \/ ErrorHead(h)
       PROVE  EndInv'
  <2> DEFINE s == StreamOf[h]
  <2>1. /\ pc[h] \in {"tail", "headers", "error", "errordata"}
        /\ pc'[h] \in {"exit", "errordata", "page"}
        /\ \A g \in Handler : g # h => pc'[g] = pc[g]
        /\ UNCHANGED <<len, rest, todo, stop, reset>>
        /\ pc'[h] \in {"errordata", "page"} => pc[h] \in {"error", "errordata"}
        /\ \/ pc'[h] = "exit" /\ ~Wanted(h) /\ wire' = wire
           \/ pc'[h] = "errordata" /\ wire' = wire
           \/ pc'[h] \in {"exit", "page"} /\ OnWire(h, TRUE)
        /\ pc[h] = "headers" => Kind[h] = "cgi"
    BY <1>t, <1>11 DEF Tail, NoHeader, ErrorHeaders, ErrorHead, Goto, Wanted, conn, frame, body
  <2>2. EndAt(h) /\ Kind[h] \in {"cgi", "error"} /\ wire[s] = "open"
    BY <1>e, <2>1 DEF EndAt, Finished, PlaceOf
  <2>3. /\ wire'[s] # "after"
        /\ pc'[h] = "errordata" => wire'[s] = "open"
        /\ pc'[h] = "page" => wire'[s] = "ended"
        /\ pc'[h] = "exit" /\ Wanted(h) => wire'[s] = "ended"
        /\ \A r \in Stream : r # s => wire'[r] = wire[r]
    BY <1>t, <2>1, <2>2 DEF OnWire
  <2>4. PlaceOf(h)' /\ ~Finished(h)'
    BY <1>t, <2>1, <2>2 DEF EndAt, PlaceOf, Finished
  <2>5. EndAt(h)'
    BY <1>t, <2>1, <2>2, <2>3, <2>4 DEF EndAt, Wanted
  <2> QED
    BY <1>t, <1>e, <2>1, <2>3, <2>5, OtherEnds
<1>g. ASSUME NEW h \in Handler, ErrorPage(h) PROVE EndInv'
  <2>1. /\ pc[h] = "page" /\ pc' = [pc EXCEPT ![h] = "exit"]
        /\ UNCHANGED <<len, rest, todo, wire, stop, reset>>
    BY <1>g DEF ErrorPage, Goto, conn, frame, body, observed
  <2>2. EndAt(h)'
    BY <1>t, <1>e, <2>1 DEF EndAt, PlaceOf, Finished, Marked, Wanted
  <2> QED
    BY <1>t, <1>e, <2>1, <2>2, OtherEnds DEF NothingAfterEnd
<1>12. ASSUME NEW h \in Handler, Exit(h) PROVE EndInv'
  <2>1. /\ pc[h] = "exit" /\ pc' = [pc EXCEPT ![h] = "done"]
        /\ rest' = [rest EXCEPT ![h] = 0] /\ todo' = [todo EXCEPT ![h] = 0]
        /\ reset' = reset \cup {StreamOf[h]}
        /\ UNCHANGED <<len, wire, stop>>
    BY <1>12 DEF Exit, Goto, frame, observed
  <2>2. EndAt(h)'
    BY <1>t, <1>e, <2>1 DEF EndAt, PlaceOf, Finished, Marked, Wanted
  <2> QED
    BY <1>t, <1>e, <2>1, <2>2, OtherEnds DEF NothingAfterEnd
<1> QED
  BY <1>1, <1>2, <1>3, <1>4, <1>5, <1>6, <1>7, <1>8, <1>9, <1>10, <1>11, <1>12,
     <1>r, <1>p, <1>g, NextCases

\* With one handler per stream: as long as the frames are whole, each response
\* ends its stream unless somebody stopped it or it is an empty file, and no
\* frame follows that end unless it is brotli's, whatever the windows, the
\* sizes and the other handlers are.
THEOREM EachEndsOnce == OneHandlerPerStream => (Spec => []EndsOnce)
<1> SUFFICES ASSUME OneHandlerPerStream PROVE Spec => []EndsOnce
  OBVIOUS
<1>1. TypeInv /\ EndInv /\ [Next]_vars => EndInv'
  BY StepEnd
<1>2. EndInv => EndsOnce
  BY DEF EndInv, EndAt, Marked, Wanted, EndsOnce, ResponseEnded
<1> QED
  BY <1>1, <1>2, InitEnd, InitType, StepType, PTL DEF Spec
=============================================================================
