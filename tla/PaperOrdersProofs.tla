-------------------------- MODULE PaperOrdersProofs --------------------------
(***************************************************************************)
(* However many handlers overlap, an order never has two open positions.   *)
(*                                                                         *)
(* The claim is not inductive: a fill that is about to insert must have    *)
(* seen that its order has no open position, and nobody may open one in    *)
(* between.  The first is a fact of the fill's own SELECT (Looked), which  *)
(* goes by the signal of the order (Backed); the second is the row lock    *)
(* that the flush took (Locked).                                           *)
(*                                                                         *)
(* Requests one at a time promise more, and the second half proves it: a   *)
(* signal has one open position, a closed position is never written, and   *)
(* the handlers implement PaperLifecycle.                                  *)
(***************************************************************************)
EXTENDS PaperOrders, FiniteSetTheorems, TLAPS

Held(c) == call[c].stage \in {"flushed", "ready"}

Located ==
    \A c \in Calls :
        /\ call[c].kind \in {"fill", "close"} => call[c].order \in Orders
        /\ Held(c) => call[c].kind \in {"fill", "close"}

Locked == \A c, d \in Calls : Held(c) /\ Held(d) /\ call[c].order = call[d].order => c = d

Backed ==
    \A p \in Calls :
        position[p].status = "open" =>
            /\ position[p].opener \in Orders
            /\ order[position[p].opener].status # "none"
            /\ order[position[p].opener].signal = position[p].signal

OpenedBy(p, o) == position[p].status = "open" /\ position[p].opener = o

Looked ==
    \A c \in Calls :
        call[c].stage = "ready" /\ call[c].kind = "fill" /\ call[c].found = NoPosition
            => \A p \in Calls : ~OpenedBy(p, call[c].order)

IInv == TypeOK /\ Located /\ Locked /\ Backed /\ Looked /\ OneOpenPerOrder

-----------------------------------------------------------------------------
(* What one call does to its own record, the others standing still.        *)

LEMMA CallStep ==
  ASSUME TypeOK, Located, Locked, NEW c \in Calls, NEW r \in HttpCalls,
         call' = [call EXCEPT ![c] = r],
         r.kind \in {"fill", "close"} => r.order \in Orders,
         r.stage \notin {"flushed", "ready"}
  PROVE  /\ call' \in [Calls -> HttpCalls]
         /\ Located' /\ Locked'
         /\ \A d \in Calls : Held(d)' => d # c /\ call'[d] = call[d]
<1>1. /\ call' \in [Calls -> HttpCalls] /\ call'[c] = r
      /\ \A d \in Calls \ {c} : call'[d] = call[d]
  BY DEF TypeOK
<1>2. Located'
  BY <1>1 DEF Located, Held
<1>3. Locked'
  BY <1>1 DEF Locked, Held
<1> QED
  BY <1>1, <1>2, <1>3 DEF Held

LEMMA ReturnStep ==
  ASSUME TypeOK, Located, Locked, NEW c \in Calls, Return(c)
  PROVE  /\ call' \in [Calls -> HttpCalls]
         /\ Located' /\ Locked'
         /\ \A d \in Calls : Held(d)' => d # c /\ call'[d] = call[d]
<1> DEFINE r == [Idle EXCEPT !.stage = "done"]
<1>1. r \in HttpCalls /\ r.kind = "none" /\ r.stage = "done"
  BY DEF Idle, HttpCalls, Kinds, Answers
<1>2. call' = [call EXCEPT ![c] = r]
  BY DEF Return
<1> HIDE DEF r
<1> QED
  BY <1>1, <1>2, CallStep

(* A call that ends or begins over the same orders and positions.          *)
LEMMA QuietStep ==
  ASSUME IInv, NEW c \in Calls, NEW r \in HttpCalls,
         call' = [call EXCEPT ![c] = r],
         r.kind \in {"fill", "close"} => r.order \in Orders,
         r.stage \notin {"flushed", "ready"},
         request' \in [Signals -> Answers \union {"unused", "direct", "pending"}],
         UNCHANGED <<overdue, order, position>>
  PROVE  IInv'
<1>1. /\ call' \in [Calls -> HttpCalls] /\ Located' /\ Locked'
      /\ \A d \in Calls : Held(d)' => d # c /\ call'[d] = call[d]
  BY CallStep DEF IInv
<1>2. Looked'
  BY <1>1 DEF IInv, Looked, Held, OpenedBy
<1>3. TypeOK' /\ Backed' /\ OneOpenPerOrder'
  BY <1>1 DEF IInv, TypeOK, Backed, OneOpenPerOrder
<1> QED
  BY <1>1, <1>2, <1>3 DEF IInv

LEMMA LoadStep ==
  ASSUME IInv, NEW c \in Calls, NEW r \in HttpCalls, Load(c, r), r.stage = "loaded",
         r.kind \in {"fill", "close"} => r.order \in Orders,
         UNCHANGED <<request, overdue, order, position>>
  PROVE  IInv'
<1>1. call' = [call EXCEPT ![c] = r]
  BY DEF Load
<1>2. request' \in [Signals -> Answers \union {"unused", "direct", "pending"}]
  BY DEF IInv, TypeOK
<1> QED
  BY <1>1, <1>2, QuietStep

LEMMA QuietReturn ==
  ASSUME IInv, NEW c \in Calls, Return(c),
         request' \in [Signals -> Answers \union {"unused", "direct", "pending"}],
         UNCHANGED <<overdue, order, position>>
  PROVE  IInv'
<1> DEFINE r == [Idle EXCEPT !.stage = "done"]
<1>1. r \in HttpCalls /\ r.kind = "none" /\ r.stage = "done"
  BY DEF Idle, HttpCalls, Kinds, Answers
<1>2. call' = [call EXCEPT ![c] = r]
  BY DEF Return
<1> HIDE DEF r
<1> QED
  BY <1>1, <1>2, QuietStep

-----------------------------------------------------------------------------
(* A new order has no position yet.                                        *)

LEMMA InsertStep ==
  ASSUME TypeOK, Backed, NEW s \in Signals \union {NoSignal}, NEW o \in Orders,
         Insert(s, o), position' = position
  PROVE  order' \in [Orders -> OrderRows] /\ Backed'
<1>1. PICK status \in {"accepted", "rejected"} :
         order' = [order EXCEPT ![o] = [status |-> status, signal |-> s]]
  BY DEF Insert
<1>2. order' \in [Orders -> OrderRows]
  BY <1>1 DEF TypeOK, OrderRows
<1>3. \A p \in Calls : ~OpenedBy(p, o)
  BY DEF Backed, Insert, OpenedBy
<1>4. \A n \in Orders \ {o} : order'[n] = order[n]
  BY <1>1 DEF TypeOK
<1>5. Backed'
  BY <1>3, <1>4 DEF Backed, OpenedBy
<1> QED
  BY <1>2, <1>5

LEMMA AskStep ==
  ASSUME IInv, NEW s \in Signals, Ask(s) \/ Elapse(s)
  PROVE  IInv'
<1>1. TypeOK'
  BY DEF IInv, TypeOK, Ask, Elapse
<1>2. UNCHANGED <<order, position, call>>
  BY DEF Ask, Elapse
<1> QED
  BY <1>1, <1>2 DEF IInv, Located, Locked, Backed, Looked, OneOpenPerOrder, Held, OpenedBy

LEMMA DirectStep ==
  ASSUME IInv, NEW s \in Signals, NEW o \in Orders, Direct(s, o)
  PROVE  IInv'
<1>1. UNCHANGED <<overdue, position, call>> /\ Insert(s, o)
  BY DEF Direct
<1>2. order' \in [Orders -> OrderRows] /\ Backed'
  BY <1>1, InsertStep DEF IInv
<1>3. TypeOK'
  BY <1>1, <1>2 DEF IInv, TypeOK, Direct
<1>4. Located' /\ Locked' /\ Looked' /\ OneOpenPerOrder'
  BY <1>1 DEF IInv, Located, Locked, Looked, OneOpenPerOrder, Held, OpenedBy
<1> QED
  BY <1>2, <1>3, <1>4 DEF IInv

LEMMA LoadRequestStep ==
  ASSUME IInv, NEW c \in Calls, LoadRequest(c)
  PROVE  IInv'
<1>1. PICK s \in Signals, kind \in Answers \union {"execute"} :
         Load(c, [Idle EXCEPT !.stage = "loaded", !.kind = kind, !.signal = s])
  BY DEF LoadRequest
<1> DEFINE r == [Idle EXCEPT !.stage = "loaded", !.kind = kind, !.signal = s]
<1>2. r \in HttpCalls /\ r.stage = "loaded" /\ r.kind \notin {"fill", "close"}
  BY DEF Idle, HttpCalls, Kinds, Answers
<1>3. UNCHANGED <<request, overdue, order, position>>
  BY DEF LoadRequest
<1> HIDE DEF r
<1>4. Load(c, r)
  BY <1>1 DEF r
<1> QED
  BY <1>2, <1>3, <1>4, LoadStep

LEMMA RespondStep ==
  ASSUME IInv, NEW c \in Calls, Respond(c)
  PROVE  IInv'
<1>1. request' \in [Signals -> Answers \union {"unused", "direct", "pending"}]
  BY DEF IInv, TypeOK, Respond
<1> QED
  BY <1>1, QuietReturn DEF Respond

LEMMA ExecuteStep ==
  ASSUME IInv, NEW c \in Calls, Execute(c)
  PROVE  IInv'
<1>1. PICK o \in Orders : Insert(call[c].signal, o)
  BY DEF Execute
<1>2. Return(c) /\ UNCHANGED <<request, overdue, position>>
  BY DEF Execute
<1>3. order' \in [Orders -> OrderRows] /\ Backed'
  <2>1. call[c].signal \in Signals \union {NoSignal}
    BY DEF IInv, TypeOK, HttpCalls
  <2> QED
    BY <1>1, <1>2, <2>1, InsertStep DEF IInv
<1>4. /\ call' \in [Calls -> HttpCalls] /\ Located' /\ Locked'
      /\ \A d \in Calls : Held(d)' => d # c /\ call'[d] = call[d]
  BY <1>2, ReturnStep DEF IInv
<1>5. TypeOK' /\ OneOpenPerOrder'
  BY <1>2, <1>3, <1>4 DEF IInv, TypeOK, OneOpenPerOrder
<1>6. Looked'
  BY <1>2, <1>4 DEF IInv, Looked, Held, OpenedBy
<1> QED
  BY <1>3, <1>4, <1>5, <1>6 DEF IInv

-----------------------------------------------------------------------------
(* fill and close.                                                         *)

LEMMA LoadOrderStep ==
  ASSUME IInv, NEW c \in Calls, LoadOrder(c)
  PROVE  IInv'
<1>1. PICK o \in Orders, kind \in {"fill", "close"} :
         Load(c, [Idle EXCEPT !.stage = "loaded", !.kind = kind, !.order = o])
  BY DEF LoadOrder
<1> DEFINE r == [Idle EXCEPT !.stage = "loaded", !.kind = kind, !.order = o]
<1>2. r \in HttpCalls /\ r.stage = "loaded" /\ r.order \in Orders
  BY DEF Idle, HttpCalls, Kinds, Answers
<1>3. UNCHANGED <<request, overdue, order, position>>
  BY DEF LoadOrder
<1> HIDE DEF r
<1>4. Load(c, r)
  BY <1>1 DEF r
<1> QED
  BY <1>2, <1>3, <1>4, LoadStep

LEMMA LoadPositionStep ==
  ASSUME IInv, NEW c \in Calls, LoadPosition(c)
  PROVE  IInv'
<1>1. PICK p \in Calls :
         Load(c, [Idle EXCEPT !.stage = "loaded", !.kind = "mark", !.found = p])
  BY DEF LoadPosition
<1> DEFINE r == [Idle EXCEPT !.stage = "loaded", !.kind = "mark", !.found = p]
<1>2. r \in HttpCalls /\ r.stage = "loaded" /\ r.kind \notin {"fill", "close"}
  BY DEF Idle, HttpCalls, Kinds, Answers
<1>3. UNCHANGED <<request, overdue, order, position>>
  BY DEF LoadPosition
<1> HIDE DEF r
<1>4. Load(c, r)
  BY <1>1 DEF r
<1> QED
  BY <1>2, <1>3, <1>4, LoadStep

(* The row lock: nobody else holds the order that this call now holds.     *)
LEMMA FlushStep ==
  ASSUME IInv, NEW c \in Calls, Flush(c)
  PROVE  IInv'
<1>1. /\ call' \in [Calls -> HttpCalls]
      /\ call'[c].stage = "flushed"
      /\ call'[c].order = call[c].order /\ call'[c].kind = call[c].kind
      /\ \A d \in Calls \ {c} : call'[d] = call[d]
  BY DEF Flush, IInv, TypeOK, HttpCalls
<1>2. call[c].kind \in {"fill", "close"} /\ UNCHANGED <<request, overdue, order, position>>
  BY DEF Flush
<1>3. \A d \in Calls \ {c} : Held(d) => call[d].order # call[c].order
  BY DEF Flush, Unlocked, Held
<1>4. \A d \in Calls \ {c} : Held(d)' = Held(d)
  BY <1>1 DEF Held
<1>5. Located'
  BY <1>1, <1>2 DEF IInv, Located, Held
<1>6. Locked'
  BY <1>1, <1>3, <1>4 DEF IInv, Locked
<1>7. Looked'
  <2> SUFFICES ASSUME NEW d \in Calls, (call[d].stage = "ready")', (call[d].kind = "fill")',
                      (call[d].found = NoPosition)'
               PROVE  \A p \in Calls : ~OpenedBy(p, call[d].order)'
    BY DEF Looked
  <2>1. d # c /\ call'[d] = call[d]
    BY <1>1
  <2> QED
    BY <1>2, <2>1 DEF IInv, Looked, OpenedBy
<1> QED
  BY <1>1, <1>2, <1>5, <1>6, <1>7 DEF IInv, TypeOK, Backed, OneOpenPerOrder

LEMMA LookStep ==
  ASSUME IInv, NEW c \in Calls, Look(c)
  PROVE  IInv'
<1> DEFINE open == OpenOf(order[call[c].order].signal)
<1>1. call[c] \in HttpCalls /\ call[c].stage = "flushed" /\ Held(c)
  BY DEF Look, IInv, TypeOK, Held
<1>2. call[c].order \in Orders /\ call[c].kind \in {"fill", "close"}
  BY <1>1 DEF IInv, Located
<1>3. PICK p \in (IF open = {} THEN {NoPosition} ELSE open) :
         call' = [call EXCEPT ![c].stage = "ready", ![c].found = p,
                     ![c].marked = p \in Calls /\ position[p].marked]
  BY DEF Look
<1>4. UNCHANGED <<request, overdue, order, position>>
  BY DEF Look
<1>5. p \in Calls \union {NoPosition} /\ (p = NoPosition => open = {})
  BY <1>3, PaperAssumption DEF OpenOf
<1>6. /\ call' \in [Calls -> HttpCalls]
      /\ call'[c].stage = "ready" /\ call'[c].found = p
      /\ call'[c].kind = call[c].kind /\ call'[c].order = call[c].order
      /\ \A d \in Calls \ {c} : call'[d] = call[d]
  <2> DEFINE marked == p \in Calls /\ position[p].marked
  <2>1. marked \in BOOLEAN
    OBVIOUS
  <2>2. call' = [call EXCEPT ![c].stage = "ready", ![c].found = p, ![c].marked = marked]
    BY <1>3
  <2> HIDE DEF marked
  <2>3. call' = [call EXCEPT ![c] = [call[c] EXCEPT !.stage = "ready", !.found = p,
                                                    !.marked = marked]]
    BY <2>2
  <2>4. [call[c] EXCEPT !.stage = "ready", !.found = p, !.marked = marked] \in HttpCalls
    BY <1>1, <1>5, <2>1 DEF HttpCalls
  <2>5. call \in [Calls -> HttpCalls]
    BY DEF IInv, TypeOK
  <2> QED
    BY <1>1, <2>3, <2>4, <2>5 DEF HttpCalls
<1>7. Located' /\ Locked'
  BY <1>1, <1>2, <1>6 DEF IInv, Located, Locked, Held
<1>8. Looked'
  <2>1. ASSUME p = NoPosition, NEW q \in Calls, OpenedBy(q, call[c].order) PROVE FALSE
    <3>1. position[q].signal = order[call[c].order].signal
      BY <2>1 DEF IInv, Backed, OpenedBy
    <3>2. q \in open
      BY <2>1, <3>1 DEF OpenOf, OpenedBy
    <3> QED
      BY <1>5, <2>1, <3>2
  <2> QED
    BY <1>4, <1>6, <2>1 DEF IInv, Looked, OpenedBy
<1> QED
  BY <1>4, <1>6, <1>7, <1>8 DEF IInv, TypeOK, Backed, OneOpenPerOrder

(* The order stays a row of its signal while its status moves on.          *)
LEMMA StatusStep ==
  ASSUME TypeOK, NEW o \in Orders, NEW status \in {"filled", "closed"},
         order' = [order EXCEPT ![o].status = status]
  PROVE  /\ order' \in [Orders -> OrderRows]
         /\ order'[o].status # "none"
         /\ \A n \in Orders : order'[n].signal = order[n].signal
         /\ \A n \in Orders : order[n].status # "none" => order'[n].status # "none"
BY DEF TypeOK, OrderRows

LEMMA CommitFillStep ==
  ASSUME IInv, NEW c \in Calls, CommitFill(c)
  PROVE  IInv'
<1> DEFINE o == call[c].order
<1>1. o \in Orders /\ Held(c)
  BY DEF CommitFill, Held, IInv, Located
<1>2. /\ order' \in [Orders -> OrderRows] /\ order'[o].status # "none"
      /\ \A n \in Orders : order'[n].signal = order[n].signal
      /\ \A n \in Orders : order[n].status # "none" => order'[n].status # "none"
  BY <1>1, StatusStep DEF CommitFill, IInv
<1>3. /\ call' \in [Calls -> HttpCalls] /\ Located' /\ Locked'
      /\ \A d \in Calls : Held(d)' => d # c /\ call'[d] = call[d]
  BY ReturnStep DEF CommitFill, IInv
<1>4. UNCHANGED <<request, overdue>>
  BY DEF CommitFill
<1>5. CASE call[c].found # NoPosition
  <2>1. position' = position
    BY <1>5 DEF CommitFill
  <2>2. Backed'
    BY <1>2, <2>1 DEF IInv, Backed
  <2>3. Looked'
    BY <1>3, <2>1 DEF IInv, Looked, Held, OpenedBy
  <2> QED
    BY <1>2, <1>3, <1>4, <2>1, <2>2, <2>3 DEF IInv, TypeOK, OneOpenPerOrder
<1>6. CASE call[c].found = NoPosition
  <2>1. position' = [position EXCEPT ![c] = NewPosition(o)]
    BY <1>6 DEF CommitFill
  <2>2. /\ NewPosition(o) \in PositionRows
        /\ NewPosition(o).status = "open" /\ NewPosition(o).opener = o
        /\ NewPosition(o).signal = order[o].signal
    BY <1>1 DEF NewPosition, NoRow, PositionRows, IInv, TypeOK, OrderRows
  <2>3. /\ position' \in [Calls -> PositionRows] /\ position'[c] = NewPosition(o)
        /\ \A p \in Calls \ {c} : position'[p] = position[p]
    BY <2>1, <2>2 DEF IInv, TypeOK
  <2>4. \A p \in Calls : ~OpenedBy(p, o)
    BY <1>6 DEF IInv, Looked, CommitFill
  <2>5. OneOpenPerOrder'
    BY <2>2, <2>3, <2>4 DEF IInv, OneOpenPerOrder, OpenedBy
  <2>6. Backed'
    BY <1>1, <1>2, <2>2, <2>3 DEF IInv, Backed
  <2>7. Looked'
    <3> SUFFICES ASSUME NEW d \in Calls, (call[d].stage = "ready")', (call[d].kind = "fill")',
                        (call[d].found = NoPosition)', NEW p \in Calls
                 PROVE  ~OpenedBy(p, call[d].order)'
      BY DEF Looked
    <3>1. d # c /\ call'[d] = call[d] /\ Held(d)
      BY <1>3 DEF Held
    <3>2. call[d].order # o
      BY <1>1, <3>1 DEF IInv, Locked
    <3>3. CASE p = c
      BY <2>2, <2>3, <3>1, <3>2, <3>3 DEF OpenedBy
    <3>4. CASE p # c
      BY <2>3, <3>1, <3>4 DEF IInv, Looked, OpenedBy
    <3> QED
      BY <3>3, <3>4
  <2> QED
    BY <1>2, <1>3, <1>4, <2>3, <2>5, <2>6, <2>7 DEF IInv, TypeOK
<1> QED
  BY <1>5, <1>6

(* Positions that only lose their open status or change their P&L.         *)
LEMMA PositionStep ==
  ASSUME IInv, NEW c \in Calls, Return(c), UNCHANGED <<request, overdue>>,
         order' \in [Orders -> OrderRows], position' \in [Calls -> PositionRows],
         \A n \in Orders : order'[n].signal = order[n].signal,
         \A n \in Orders : order[n].status # "none" => order'[n].status # "none",
         \A p \in Calls :
             position'[p].status = "open" =>
                 /\ position[p].status = "open"
                 /\ position'[p].opener = position[p].opener
                 /\ position'[p].signal = position[p].signal
  PROVE  IInv'
<1>1. /\ call' \in [Calls -> HttpCalls] /\ Located' /\ Locked'
      /\ \A d \in Calls : Held(d)' => d # c /\ call'[d] = call[d]
  BY ReturnStep DEF IInv
<1>2. \A p \in Calls, o \in Orders : OpenedBy(p, o)' => OpenedBy(p, o)
  BY DEF OpenedBy
<1>3. Looked'
  <2> SUFFICES ASSUME NEW d \in Calls, (call[d].stage = "ready")', (call[d].kind = "fill")',
                      (call[d].found = NoPosition)', NEW p \in Calls
               PROVE  ~OpenedBy(p, call[d].order)'
    BY DEF Looked
  <2>1. call'[d] = call[d] /\ call'[d].order \in Orders
    BY <1>1 DEF Held, Located
  <2>2. ~OpenedBy(p, call[d].order)
    BY <2>1 DEF IInv, Looked
  <2> QED
    BY <2>1, <2>2 DEF OpenedBy
<1>4. Backed'
  BY DEF IInv, Backed
<1>5. OneOpenPerOrder'
  BY DEF IInv, OneOpenPerOrder
<1> QED
  BY <1>1, <1>3, <1>4, <1>5 DEF IInv, TypeOK

LEMMA CommitCloseStep ==
  ASSUME IInv, NEW c \in Calls, CommitClose(c)
  PROVE  IInv'
<1> DEFINE o == call[c].order
           found == call[c].found
<1>1. o \in Orders /\ Return(c) /\ UNCHANGED <<request, overdue>>
  BY DEF CommitClose, Held, IInv, Located
<1>2. /\ order' \in [Orders -> OrderRows]
      /\ \A n \in Orders : order'[n].signal = order[n].signal
      /\ \A n \in Orders : order[n].status # "none" => order'[n].status # "none"
  BY <1>1, StatusStep DEF CommitClose, IInv
<1>3. CASE found = NoPosition
  <2>1. position' = position
    BY <1>3 DEF CommitClose
  <2>2. position' \in [Calls -> PositionRows]
    BY <2>1 DEF IInv, TypeOK
  <2> QED
    BY <1>1, <1>2, <2>1, <2>2, PositionStep
<1>4. CASE found # NoPosition
  <2>1. found \in Calls
    BY <1>4 DEF IInv, TypeOK, HttpCalls
  <2>2. position' = [position EXCEPT ![found].status = "closed", ![found].closer = o,
                                     ![found].marked = @ /\ ~call[c].marked]
    BY <1>4 DEF CommitClose
  <2>3. position' \in [Calls -> PositionRows]
    BY <1>1, <2>1, <2>2 DEF IInv, TypeOK, PositionRows
  <2>4. /\ \A p \in Calls \ {found} : position'[p] = position[p]
        /\ position'[found].status = "closed"
    BY <2>1, <2>2 DEF IInv, TypeOK, PositionRows
  <2> QED
    BY <1>1, <1>2, <1>4, <2>3, <2>4, PositionStep
<1> QED
  BY <1>3, <1>4

LEMMA MarkStep ==
  ASSUME IInv, NEW c \in Calls, Mark(c)
  PROVE  IInv'
<1>1. Return(c) /\ UNCHANGED <<request, overdue, order>>
  BY DEF Mark
<1>2. position' = [position EXCEPT ![call[c].found].marked = TRUE]
  BY DEF Mark
<1>3. /\ position' \in [Calls -> PositionRows]
      /\ \A p \in Calls : /\ position'[p].status = position[p].status
                           /\ position'[p].opener = position[p].opener
                           /\ position'[p].signal = position[p].signal
  BY <1>2 DEF IInv, TypeOK, PositionRows
<1>4. order' \in [Orders -> OrderRows]
  BY <1>1 DEF IInv, TypeOK
<1> QED
  BY <1>1, <1>3, <1>4, PositionStep

LEMMA AbortStep ==
  ASSUME IInv, NEW c \in Calls, Abort(c)
  PROVE  IInv'
<1>1. request' \in [Signals -> Answers \union {"unused", "direct", "pending"}]
  BY DEF IInv, TypeOK, Abort
<1> QED
  BY <1>1, QuietReturn DEF Abort

-----------------------------------------------------------------------------

LEMMA InitIInv == Init => IInv
<1> SUFFICES ASSUME Init PROVE IInv
  OBVIOUS
<1>1. TypeOK
  BY DEF Init, TypeOK, Answers, OrderRows, PositionRows, NoRow, HttpCalls, Kinds, Idle
<1>2. \A c \in Calls : call[c].stage = "idle" /\ call[c].kind = "none"
  BY DEF Init, Idle
<1>3. \A p \in Calls : position[p].status = "none"
  BY DEF Init, NoRow
<1> QED
  BY <1>1, <1>2, <1>3 DEF IInv, Located, Locked, Backed, Looked, OneOpenPerOrder, Held

LEMMA NextIInv == IInv /\ [Next]_vars => IInv'
<1> SUFFICES ASSUME IInv, [Next]_vars PROVE IInv'
  OBVIOUS
<1>1. ASSUME NEW s \in Signals, Ask(s) \/ Elapse(s) PROVE IInv'
  BY <1>1, AskStep
<1>2. ASSUME NEW s \in Signals, NEW o \in Orders, Direct(s, o) PROVE IInv'
  BY <1>2, DirectStep
<1>3. ASSUME NEW c \in Calls, LoadRequest(c) PROVE IInv'
  BY <1>3, LoadRequestStep
<1>4. ASSUME NEW c \in Calls, Respond(c) PROVE IInv'
  BY <1>4, RespondStep
<1>5. ASSUME NEW c \in Calls, Execute(c) PROVE IInv'
  BY <1>5, ExecuteStep
<1>6. ASSUME NEW c \in Calls, LoadOrder(c) PROVE IInv'
  BY <1>6, LoadOrderStep
<1>7. ASSUME NEW c \in Calls, Flush(c) PROVE IInv'
  BY <1>7, FlushStep
<1>8. ASSUME NEW c \in Calls, Look(c) PROVE IInv'
  BY <1>8, LookStep
<1>9. ASSUME NEW c \in Calls, CommitFill(c) PROVE IInv'
  BY <1>9, CommitFillStep
<1>10. ASSUME NEW c \in Calls, CommitClose(c) PROVE IInv'
  BY <1>10, CommitCloseStep
<1>11. ASSUME NEW c \in Calls, LoadPosition(c) PROVE IInv'
  BY <1>11, LoadPositionStep
<1>12. ASSUME NEW c \in Calls, Mark(c) PROVE IInv'
  BY <1>12, MarkStep
<1>13. ASSUME NEW c \in Calls, Abort(c) PROVE IInv'
  BY <1>13, AbortStep
<1>14. CASE UNCHANGED vars
  BY <1>14 DEF vars, IInv, TypeOK, Located, Locked, Backed, Looked, OneOpenPerOrder,
               Held, OpenedBy
<1> QED
  BY <1>1, <1>2, <1>3, <1>4, <1>5, <1>6, <1>7, <1>8, <1>9, <1>10, <1>11, <1>12, <1>13,
     <1>14 DEF Next

(* Every variable of the handlers keeps its shape. *)
THEOREM TypeCorrect == Spec => []TypeOK
<1>1. IInv => TypeOK
  BY DEF IInv
<1> QED
  BY <1>1, InitIInv, NextIInv, PTL DEF Spec

(* Whatever number of fill and close handlers overlap, and wherever they   *)
(* are cut off, an order has at most one open position.                    *)
THEOREM OrderHasOneOpenPosition == Spec => []OneOpenPerOrder
<1>1. IInv => OneOpenPerOrder
  BY DEF IInv
<1> QED
  BY <1>1, InitIInv, NextIInv, PTL DEF Spec

-----------------------------------------------------------------------------
(* Requests one at a time.  What a handler read is then still true when it *)
(* writes (Fresh), and this is what keeps a signal at one open position:   *)
(* a fill inserts where nothing is open, a close ends what is.             *)

OneCall == \A c, d \in Calls : InProgress(c) /\ InProgress(d) => c = d

SignalsOfOrders == \A o \in Orders : order[o].status # "none" => order[o].signal \in Signals

(* A position is named by the call that inserted it and ended. *)
Unused == \A c \in Calls : position[c].status # "none" => call[c].stage = "done"

ReadsRequest(c, status) ==
    call[c].signal \in Signals /\ request[call[c].signal] = status

SeesOpen(c) ==
    LET open == OpenOf(order[call[c].order].signal)
    IN  IF call[c].found = NoPosition THEN open = {} ELSE call[c].found \in open

ReadsOrder(c) ==
    /\ call[c].order \in Orders
    /\ order[call[c].order].status = Required(call[c].kind)
    /\ call[c].stage = "ready" => SeesOpen(c)

CurrentRead(c) ==
    /\ call[c].kind \in Answers => ReadsRequest(c, "pending")
    /\ call[c].kind = "execute" => ReadsRequest(c, "approved")
    /\ call[c].kind \in {"fill", "close"} => ReadsOrder(c)
    /\ call[c].kind = "mark" => call[c].found \in Calls /\ Markable(call[c].found)

Fresh == \A c \in Calls : InProgress(c) => CurrentRead(c)

SerialInv ==
    IInv /\ OneCall /\ SignalsOfOrders /\ Unused /\ Fresh /\ OnePositionPerSignal

Holdings == {position[p].signal : p \in {q \in Calls : position[q].status = "open"}}

-----------------------------------------------------------------------------

LEMMA LoadAlone ==
  ASSUME MaxOverlap = 1, TypeOK, NEW c \in Calls, NEW r \in HttpCalls, Load(c, r)
  PROVE  /\ \A d \in Calls : ~InProgress(d)
         /\ call[c].stage = "idle"
         /\ call'[c] = r /\ \A d \in Calls \ {c} : call'[d] = call[d]
<1> DEFINE busy == {d \in Calls : InProgress(d)}
<1>1. IsFiniteSet(busy)
  BY PaperAssumption, FS_Subset
<1>2. Cardinality(busy) \in Nat /\ Cardinality(busy) < 1
  BY <1>1, FS_CardinalityType DEF Load
<1>3. busy = {}
  BY <1>1, <1>2, FS_EmptySet
<1>4. call' = [call EXCEPT ![c] = r] /\ call[c].stage = "idle"
  BY DEF Load
<1> QED
  BY <1>3, <1>4 DEF TypeOK

(* A request that begins: nobody else is in progress. *)
LEMMA SerialLoad ==
  ASSUME MaxOverlap = 1, SerialInv, IInv', NEW c \in Calls, NEW r \in HttpCalls, Load(c, r),
         UNCHANGED <<request, overdue, order, position>>,
         CurrentRead(c)'
  PROVE  SerialInv'
<1>1. /\ \A d \in Calls : ~InProgress(d)
      /\ call[c].stage = "idle"
      /\ \A d \in Calls \ {c} : call'[d] = call[d]
  BY LoadAlone DEF SerialInv, IInv
<1>2. \A d \in Calls : InProgress(d)' => d = c
  BY <1>1 DEF InProgress
<1>3. OneCall' /\ Fresh'
  BY <1>2 DEF OneCall, Fresh
<1>4. Unused'
  BY <1>1 DEF SerialInv, Unused
<1>5. SignalsOfOrders' /\ OnePositionPerSignal'
  BY DEF SerialInv, SignalsOfOrders, OnePositionPerSignal
<1> QED
  BY <1>3, <1>4, <1>5 DEF SerialInv

(* A request that ends leaves nobody in progress. *)
LEMMA ReturnAlone ==
  ASSUME SerialInv, NEW c \in Calls, InProgress(c), Return(c)
  PROVE  /\ \A d \in Calls : ~InProgress(d)'
         /\ OneCall' /\ Fresh'
         /\ call'[c].stage = "done" /\ \A d \in Calls \ {c} : call'[d] = call[d]
<1>1. call'[c].stage = "done" /\ \A d \in Calls \ {c} : call'[d] = call[d]
  BY DEF Return, Idle, SerialInv, IInv, TypeOK
<1>2. \A d \in Calls \ {c} : ~InProgress(d)
  BY DEF SerialInv, OneCall
<1>3. \A d \in Calls : ~InProgress(d)'
  BY <1>1, <1>2 DEF InProgress
<1> QED
  BY <1>1, <1>3 DEF OneCall, Fresh

LEMMA SerialReturn ==
  ASSUME SerialInv, IInv', NEW c \in Calls, InProgress(c), Return(c),
         UNCHANGED <<order, position>>
  PROVE  SerialInv'
<1>1. /\ OneCall' /\ Fresh'
      /\ call'[c].stage = "done" /\ \A d \in Calls \ {c} : call'[d] = call[d]
  BY ReturnAlone
<1>2. Unused'
  BY <1>1 DEF SerialInv, Unused
<1>3. SignalsOfOrders' /\ OnePositionPerSignal'
  BY DEF SerialInv, SignalsOfOrders, OnePositionPerSignal
<1> QED
  BY <1>1, <1>2, <1>3 DEF SerialInv

(* A call that moves on within its request. *)
LEMMA SerialStay ==
  ASSUME SerialInv, IInv', NEW c \in Calls, InProgress(c), CurrentRead(c)',
         \A d \in Calls \ {c} : call'[d] = call[d],
         call'[c].stage # "done",
         UNCHANGED <<request, order, position>>
  PROVE  SerialInv'
<1>1. \A d \in Calls \ {c} : ~InProgress(d)
  BY DEF SerialInv, OneCall
<1>2. \A d \in Calls : InProgress(d)' => d = c
  BY <1>1 DEF InProgress
<1>3. OneCall' /\ Fresh'
  BY <1>2 DEF OneCall, Fresh
<1>4. position[c].status = "none"
  BY DEF SerialInv, Unused, InProgress
<1>5. Unused'
  BY <1>4 DEF SerialInv, Unused
<1>6. SignalsOfOrders' /\ OnePositionPerSignal'
  BY DEF SerialInv, SignalsOfOrders, OnePositionPerSignal
<1> QED
  BY <1>3, <1>5, <1>6 DEF SerialInv

(* An order row under a new id. *)
LEMMA InsertKeeps ==
  ASSUME TypeOK, SignalsOfOrders, OnePositionPerSignal, Backed,
         NEW s \in Signals, NEW o \in Orders, Insert(s, o), position' = position
  PROVE  /\ \A n \in Orders \ {o} : order'[n] = order[n]
         /\ SignalsOfOrders' /\ OnePositionPerSignal'
<1>1. PICK status \in {"accepted", "rejected"} :
         order' = [order EXCEPT ![o] = [status |-> status, signal |-> s]]
  BY DEF Insert
<1>2. /\ \A n \in Orders \ {o} : order'[n] = order[n]
      /\ order'[o].signal = s
  BY <1>1 DEF TypeOK
<1>3. SignalsOfOrders'
  BY <1>2 DEF SignalsOfOrders
<1>4. \A p \in Calls : position[p].status = "open" =>
          position[p].opener \in Orders \ {o}
  BY DEF Backed, Insert
<1>5. OnePositionPerSignal'
  BY <1>2, <1>4 DEF OnePositionPerSignal
<1> QED
  BY <1>2, <1>3, <1>5

-----------------------------------------------------------------------------

LEMMA SerialAsk ==
  ASSUME SerialInv, IInv', NEW s \in Signals, Ask(s) \/ Elapse(s)
  PROVE  SerialInv'
<1>1. UNCHANGED <<order, position, call>>
  BY DEF Ask, Elapse
<1>2. \A t \in Signals : request[t] \in {"pending", "approved"} => request'[t] = request[t]
  BY DEF Ask, Elapse, SerialInv, IInv, TypeOK
<1>3. ASSUME NEW c \in Calls, CurrentRead(c) PROVE CurrentRead(c)'
  BY <1>1, <1>2, <1>3 DEF CurrentRead, ReadsRequest, ReadsOrder, SeesOpen, OpenOf, Markable, Required
<1>4. Fresh'
  BY <1>1, <1>3 DEF SerialInv, Fresh, InProgress
<1>5. OneCall' /\ Unused'
  BY <1>1 DEF SerialInv, OneCall, InProgress, Unused
<1>6. SignalsOfOrders' /\ OnePositionPerSignal'
  BY <1>1 DEF SerialInv, SignalsOfOrders, OnePositionPerSignal
<1> QED
  BY <1>4, <1>5, <1>6 DEF SerialInv

LEMMA SerialDirect ==
  ASSUME SerialInv, IInv', NEW s \in Signals, NEW o \in Orders, Direct(s, o)
  PROVE  SerialInv'
<1>1. UNCHANGED <<position, call>> /\ Insert(s, o) /\ order[o].status = "none"
  BY DEF Direct, Insert
<1>2. \A t \in Signals : request[t] \in {"pending", "approved"} => request'[t] = request[t]
  BY DEF Direct, SerialInv, IInv, TypeOK
<1>3. /\ \A n \in Orders \ {o} : order'[n] = order[n]
      /\ SignalsOfOrders' /\ OnePositionPerSignal'
  BY <1>1, InsertKeeps DEF SerialInv, IInv
<1>4. ASSUME NEW c \in Calls, CurrentRead(c) PROVE CurrentRead(c)'
  <2>1. ReadsOrder(c) => ReadsOrder(c)'
    <3> SUFFICES ASSUME ReadsOrder(c) PROVE ReadsOrder(c)'
      OBVIOUS
    <3>1. call[c].order \in Orders \ {o}
      BY <1>1 DEF ReadsOrder, Required
    <3>2. order'[call[c].order] = order[call[c].order]
      BY <1>3, <3>1
    <3> QED
      BY <1>1, <3>2 DEF ReadsOrder, SeesOpen, OpenOf, Required
  <2> QED
    BY <1>1, <1>2, <1>4, <2>1 DEF CurrentRead, ReadsRequest, Markable
<1>5. Fresh'
  BY <1>1, <1>4 DEF SerialInv, Fresh, InProgress
<1>6. OneCall' /\ Unused'
  BY <1>1 DEF SerialInv, OneCall, InProgress, Unused
<1> QED
  BY <1>3, <1>5, <1>6 DEF SerialInv

LEMMA SerialLoadRequest ==
  ASSUME MaxOverlap = 1, SerialInv, IInv', NEW c \in Calls, LoadRequest(c)
  PROVE  SerialInv'
<1>1. PICK s \in Signals, kind \in Answers \union {"execute"} :
         /\ request[s] = IF kind = "execute" THEN "approved" ELSE "pending"
         /\ Load(c, [Idle EXCEPT !.stage = "loaded", !.kind = kind, !.signal = s])
  BY DEF LoadRequest
<1> DEFINE r == [Idle EXCEPT !.stage = "loaded", !.kind = kind, !.signal = s]
<1>2. /\ r \in HttpCalls /\ r.stage = "loaded" /\ r.kind = kind /\ r.signal = s
      /\ kind \notin {"fill", "close", "mark"} /\ "execute" \notin Answers
  BY DEF Idle, HttpCalls, Kinds, Answers
<1>3. UNCHANGED <<request, overdue, order, position>>
  BY DEF LoadRequest
<1> HIDE DEF r
<1>4. Load(c, r)
  BY <1>1 DEF r
<1>5. call'[c] = r
  BY <1>2, <1>4, LoadAlone DEF SerialInv, IInv
<1>6. CurrentRead(c)'
  BY <1>1, <1>2, <1>3, <1>5 DEF CurrentRead, ReadsRequest
<1> QED
  BY <1>2, <1>3, <1>4, <1>6, SerialLoad

LEMMA SerialLoadOrder ==
  ASSUME MaxOverlap = 1, SerialInv, IInv', NEW c \in Calls, LoadOrder(c)
  PROVE  SerialInv'
<1>1. PICK o \in Orders, kind \in {"fill", "close"} :
         /\ order[o].status = Required(kind)
         /\ Load(c, [Idle EXCEPT !.stage = "loaded", !.kind = kind, !.order = o])
  BY DEF LoadOrder
<1> DEFINE r == [Idle EXCEPT !.stage = "loaded", !.kind = kind, !.order = o]
<1>2. /\ r \in HttpCalls /\ r.stage = "loaded" /\ r.kind = kind /\ r.order = o
      /\ kind \notin Answers /\ kind # "execute" /\ kind # "mark"
  BY DEF Idle, HttpCalls, Kinds, Answers
<1>3. UNCHANGED <<request, overdue, order, position>>
  BY DEF LoadOrder
<1> HIDE DEF r
<1>4. Load(c, r)
  BY <1>1 DEF r
<1>5. call'[c] = r
  BY <1>2, <1>4, LoadAlone DEF SerialInv, IInv
<1>6. CurrentRead(c)'
  BY <1>1, <1>2, <1>3, <1>5 DEF CurrentRead, ReadsOrder, Required
<1> QED
  BY <1>2, <1>3, <1>4, <1>6, SerialLoad

LEMMA SerialLoadPosition ==
  ASSUME MaxOverlap = 1, SerialInv, IInv', NEW c \in Calls, LoadPosition(c)
  PROVE  SerialInv'
<1>1. PICK p \in Calls :
         Markable(p) /\ Load(c, [Idle EXCEPT !.stage = "loaded", !.kind = "mark", !.found = p])
  BY DEF LoadPosition
<1> DEFINE r == [Idle EXCEPT !.stage = "loaded", !.kind = "mark", !.found = p]
<1>2. r \in HttpCalls /\ r.stage = "loaded" /\ r.kind = "mark" /\ r.found = p /\ "mark" \notin Answers
  BY DEF Idle, HttpCalls, Kinds, Answers
<1>3. UNCHANGED <<request, overdue, order, position>>
  BY DEF LoadPosition
<1> HIDE DEF r
<1>4. Load(c, r)
  BY <1>1 DEF r
<1>5. call'[c] = r
  BY <1>2, <1>4, LoadAlone DEF SerialInv, IInv
<1>6. CurrentRead(c)'
  BY <1>1, <1>2, <1>3, <1>5 DEF CurrentRead, Markable
<1> QED
  BY <1>2, <1>3, <1>4, <1>6, SerialLoad

LEMMA SerialFlush ==
  ASSUME SerialInv, IInv', NEW c \in Calls, Flush(c)
  PROVE  SerialInv'
<1>1. /\ InProgress(c) /\ call[c].kind \in {"fill", "close"}
      /\ UNCHANGED <<request, overdue, order, position>>
  BY DEF Flush, InProgress
<1>2. /\ call'[c].stage = "flushed"
      /\ call'[c].order = call[c].order /\ call'[c].kind = call[c].kind
      /\ \A d \in Calls \ {c} : call'[d] = call[d]
  BY DEF Flush, SerialInv, IInv, TypeOK, HttpCalls
<1>3. ReadsOrder(c)
  BY <1>1 DEF SerialInv, Fresh, CurrentRead
<1>4. ReadsOrder(c)'
  BY <1>1, <1>2, <1>3 DEF ReadsOrder, Required
<1>5. CurrentRead(c)'
  BY <1>1, <1>2, <1>4 DEF CurrentRead, Answers
<1> QED
  BY <1>1, <1>2, <1>5, SerialStay

LEMMA SerialLook ==
  ASSUME SerialInv, IInv', NEW c \in Calls, Look(c)
  PROVE  SerialInv'
<1> DEFINE open == OpenOf(order[call[c].order].signal)
<1>1. /\ InProgress(c) /\ call[c].kind \in {"fill", "close"} /\ call[c] \in HttpCalls
      /\ UNCHANGED <<request, overdue, order, position>>
  BY DEF Look, InProgress, SerialInv, IInv, Located, Held, TypeOK
<1>2. PICK p \in (IF open = {} THEN {NoPosition} ELSE open) :
         call' = [call EXCEPT ![c].stage = "ready", ![c].found = p,
                     ![c].marked = p \in Calls /\ position[p].marked]
  BY DEF Look
<1>3. IF p = NoPosition THEN open = {} ELSE p \in open
  BY <1>2, PaperAssumption DEF OpenOf
<1>4. /\ call'[c].stage = "ready" /\ call'[c].found = p
      /\ call'[c].order = call[c].order /\ call'[c].kind = call[c].kind
      /\ \A d \in Calls \ {c} : call'[d] = call[d]
  <2> DEFINE marked == p \in Calls /\ position[p].marked
  <2>1. call' = [call EXCEPT ![c] = [call[c] EXCEPT !.stage = "ready", !.found = p,
                                                    !.marked = marked]]
    BY <1>2
  <2> HIDE DEF marked
  <2> QED
    BY <1>1, <2>1 DEF HttpCalls, SerialInv, IInv, TypeOK
<1>5. ReadsOrder(c)
  BY <1>1 DEF SerialInv, Fresh, CurrentRead
<1>6. SeesOpen(c)'
  BY <1>1, <1>3, <1>4 DEF SeesOpen, OpenOf
<1>7. ReadsOrder(c)'
  BY <1>1, <1>4, <1>5, <1>6 DEF ReadsOrder, Required
<1>8. CurrentRead(c)'
  BY <1>1, <1>4, <1>7 DEF CurrentRead, Answers
<1> QED
  BY <1>1, <1>4, <1>8, SerialStay

-----------------------------------------------------------------------------
(* What the writing requests do to what is held and what is closed.        *)

KeepsClosed == \A p \in Calls : position[p].status = "closed" => position'[p] = position[p]

LEMMA SerialFill ==
  ASSUME SerialInv, IInv', NEW c \in Calls, CommitFill(c)
  PROVE  SerialInv' /\ KeepsClosed /\ \E n \in Orders : Lifecycle!Fill(n)
<1> DEFINE o == call[c].order
           s == order[o].signal
<1>1. /\ InProgress(c) /\ Return(c) /\ UNCHANGED <<request, overdue>>
      /\ call[c].kind = "fill" /\ call[c].stage = "ready"
      /\ order' = [order EXCEPT ![o].status = "filled"]
  BY DEF CommitFill, InProgress
<1>2. o \in Orders /\ order[o].status = "accepted" /\ SeesOpen(c)
  BY <1>1 DEF SerialInv, Fresh, CurrentRead, ReadsOrder, Required
<1>3. /\ order'[o].status = "filled" /\ order'[o].signal = s
      /\ \A n \in Orders \ {o} : order'[n] = order[n]
  BY <1>1, <1>2 DEF SerialInv, IInv, TypeOK, OrderRows
<1>4. /\ OneCall' /\ Fresh'
      /\ call'[c].stage = "done" /\ \A d \in Calls \ {c} : call'[d] = call[d]
  BY <1>1, ReturnAlone
<1>5. SignalsOfOrders'
  BY <1>2, <1>3 DEF SerialInv, SignalsOfOrders
<1>6. position[c].status = "none"
  BY <1>1 DEF SerialInv, Unused
<1>7. CASE call[c].found # NoPosition
  <2>1. position' = position
    BY <1>7 DEF CommitFill
  <2>2. Unused'
    BY <1>4, <2>1 DEF SerialInv, Unused
  <2>3. OnePositionPerSignal'
    <3>1. \A p \in Calls : position[p].status = "open" => position[p].opener \in Orders
      BY DEF SerialInv, IInv, Backed
    <3> QED
      BY <1>3, <2>1, <3>1 DEF SerialInv, OnePositionPerSignal
  <2>4. s \in Holdings
    BY <1>2, <1>7 DEF SeesOpen, OpenOf, Holdings
  <2>5. Holdings' = Holdings \union {s}
    BY <2>1, <2>4 DEF Holdings
  <2> QED
    BY <1>1, <1>2, <1>4, <1>5, <2>1, <2>2, <2>3, <2>5
       DEF SerialInv, KeepsClosed, Lifecycle!Fill, Holdings
<1>8. CASE call[c].found = NoPosition
  <2>1. position' = [position EXCEPT ![c] = NewPosition(o)]
    BY <1>8 DEF CommitFill
  <2>2. /\ position'[c].status = "open" /\ position'[c].opener = o
        /\ position'[c].signal = s
        /\ \A p \in Calls \ {c} : position'[p] = position[p]
    BY <2>1 DEF NewPosition, NoRow, SerialInv, IInv, TypeOK
  <2>3. \A p \in Calls : position[p].status = "open" => position[p].signal # s
    BY <1>2, <1>8 DEF SeesOpen, OpenOf
  <2>4. Unused'
    BY <1>4, <2>2 DEF SerialInv, Unused
  <2>5. OnePositionPerSignal'
    <3> SUFFICES ASSUME NEW p \in Calls, (position[p].status = "open")'
                 PROVE  /\ (order[position[p].opener].status = "filled")'
                        /\ (order[position[p].opener].signal = position[p].signal)'
                        /\ \A q \in Calls :
                             (position[q].status = "open" /\ position[q].signal = position[p].signal)'
                                => p = q
      BY DEF OnePositionPerSignal
    <3>1. CASE p = c
      BY <1>3, <2>2, <2>3, <3>1
    <3>2. CASE p # c
      <4>1. position'[p] = position[p] /\ position[p].opener \in Orders
        BY <2>2, <3>2 DEF SerialInv, IInv, Backed
      <4> QED
        BY <1>3, <2>2, <2>3, <4>1 DEF SerialInv, OnePositionPerSignal
    <3> QED
      BY <3>1, <3>2
  <2>6. Holdings' = Holdings \union {s}
    BY <1>6, <2>2 DEF Holdings
  <2>7. KeepsClosed
    BY <1>6, <2>2 DEF KeepsClosed
  <2> QED
    BY <1>1, <1>2, <1>4, <1>5, <2>4, <2>5, <2>6, <2>7
       DEF SerialInv, Lifecycle!Fill, Holdings
<1> QED
  BY <1>7, <1>8

LEMMA SerialClose ==
  ASSUME SerialInv, IInv', NEW c \in Calls, CommitClose(c)
  PROVE  SerialInv' /\ KeepsClosed /\ \E n \in Orders : Lifecycle!Close(n)
<1> DEFINE o == call[c].order
           s == order[o].signal
           found == call[c].found
<1>1. /\ InProgress(c) /\ Return(c) /\ UNCHANGED <<request, overdue>>
      /\ call[c].kind = "close" /\ call[c].stage = "ready"
      /\ order' = [order EXCEPT ![o].status = "closed"]
  BY DEF CommitClose, InProgress
<1>2. o \in Orders /\ order[o].status = "filled" /\ SeesOpen(c)
  BY <1>1 DEF SerialInv, Fresh, CurrentRead, ReadsOrder, Required
<1>3. /\ order'[o].status = "closed" /\ order'[o].signal = s
      /\ \A n \in Orders \ {o} : order'[n] = order[n]
  BY <1>1, <1>2 DEF SerialInv, IInv, TypeOK, OrderRows
<1>4. /\ OneCall' /\ Fresh'
      /\ call'[c].stage = "done" /\ \A d \in Calls \ {c} : call'[d] = call[d]
  BY <1>1, ReturnAlone
<1>5. SignalsOfOrders'
  BY <1>2, <1>3 DEF SerialInv, SignalsOfOrders
(* Whatever is open afterwards was open before and is of another signal.   *)
<1>6. /\ \A p \in Calls :
            position'[p].status = "open" =>
                position'[p] = position[p] /\ position[p].signal # s
      /\ \A p \in Calls :
            position[p].status = "open" /\ position[p].signal # s => position'[p] = position[p]
      /\ \A p \in Calls : position'[p].status # "none" => position[p].status # "none"
      /\ KeepsClosed
  <2>1. CASE found = NoPosition
    <3>1. position' = position
      BY <2>1 DEF CommitClose
    <3>2. \A p \in Calls : position[p].status = "open" => position[p].signal # s
      BY <1>2, <2>1 DEF SeesOpen, OpenOf
    <3> QED
      BY <3>1, <3>2 DEF KeepsClosed
  <2>2. CASE found # NoPosition
    <3>1. found \in Calls /\ position[found].status = "open" /\ position[found].signal = s
      BY <1>2, <2>2 DEF SeesOpen, OpenOf
    <3>2. position' = [position EXCEPT ![found].status = "closed", ![found].closer = o,
                                       ![found].marked = @ /\ ~call[c].marked]
      BY <2>2 DEF CommitClose
    <3>3. /\ \A p \in Calls \ {found} : position'[p] = position[p]
          /\ position'[found].status = "closed"
      BY <3>1, <3>2 DEF SerialInv, IInv, TypeOK, PositionRows
    <3>4. \A p \in Calls :
              position[p].status = "open" /\ position[p].signal = s => p = found
      BY <3>1 DEF SerialInv, OnePositionPerSignal
    <3> QED
      BY <3>1, <3>3, <3>4 DEF KeepsClosed
  <2> QED
    BY <2>1, <2>2
<1>7. Unused'
  BY <1>4, <1>6 DEF SerialInv, Unused
<1>8. OnePositionPerSignal'
  <2> SUFFICES ASSUME NEW p \in Calls, (position[p].status = "open")'
               PROVE  /\ (order[position[p].opener].status = "filled")'
                      /\ (order[position[p].opener].signal = position[p].signal)'
                      /\ \A q \in Calls :
                           (position[q].status = "open" /\ position[q].signal = position[p].signal)'
                              => p = q
    BY DEF OnePositionPerSignal
  <2>1. position'[p] = position[p] /\ position[p].signal # s /\ position[p].status = "open"
    BY <1>6
  <2>2. position[p].opener \in Orders \ {o}
    BY <2>1 DEF SerialInv, IInv, Backed
  <2>3. order'[position[p].opener] = order[position[p].opener]
    BY <1>3, <2>2
  <2>4. \A q \in Calls :
           (position[q].status = "open" /\ position[q].signal = position[p].signal)' => p = q
    BY <1>6, <2>1 DEF SerialInv, OnePositionPerSignal
  <2> QED
    BY <2>1, <2>3, <2>4 DEF SerialInv, OnePositionPerSignal
<1>9. Holdings' = Holdings \ {s}
  BY <1>6 DEF Holdings
<1> QED
  BY <1>1, <1>2, <1>4, <1>5, <1>6, <1>7, <1>8, <1>9
     DEF SerialInv, Lifecycle!Close, Holdings

LEMMA SerialMark ==
  ASSUME SerialInv, IInv', NEW c \in Calls, Mark(c)
  PROVE  SerialInv' /\ KeepsClosed /\ UNCHANGED <<request, order, Holdings>>
<1> DEFINE found == call[c].found
<1>1. /\ InProgress(c) /\ Return(c) /\ UNCHANGED <<request, overdue, order>>
      /\ call[c].kind = "mark"
      /\ position' = [position EXCEPT ![found].marked = TRUE]
  BY DEF Mark, InProgress
<1>2. found \in Calls /\ position[found].status = "open"
  BY <1>1 DEF SerialInv, Fresh, CurrentRead, Markable
<1>3. /\ \A p \in Calls : /\ position'[p].status = position[p].status
                           /\ position'[p].signal = position[p].signal
                           /\ position'[p].opener = position[p].opener
      /\ \A p \in Calls \ {found} : position'[p] = position[p]
  BY <1>1 DEF SerialInv, IInv, TypeOK, PositionRows
<1>4. /\ OneCall' /\ Fresh'
      /\ call'[c].stage = "done" /\ \A d \in Calls \ {c} : call'[d] = call[d]
  BY <1>1, ReturnAlone
<1>5. Unused'
  BY <1>3, <1>4 DEF SerialInv, Unused
<1>6. SignalsOfOrders' /\ OnePositionPerSignal'
  BY <1>1, <1>3 DEF SerialInv, SignalsOfOrders, OnePositionPerSignal
<1>7. Holdings' = Holdings
  BY <1>3 DEF Holdings
<1>8. KeepsClosed
  BY <1>2, <1>3 DEF KeepsClosed
<1> QED
  BY <1>1, <1>4, <1>5, <1>6, <1>7, <1>8 DEF SerialInv

LEMMA SerialExecute ==
  ASSUME SerialInv, IInv', NEW c \in Calls, Execute(c)
  PROVE  /\ SerialInv' /\ UNCHANGED position
         /\ \E s \in Signals, o \in Orders : Lifecycle!Execute(s, o)
<1> DEFINE s == call[c].signal
<1>1. PICK o \in Orders : Insert(s, o)
  BY DEF Execute
<1>2. /\ InProgress(c) /\ call[c].kind = "execute"
      /\ Return(c) /\ UNCHANGED <<request, overdue, position>>
  BY DEF Execute, InProgress
<1>3. s \in Signals /\ request[s] = "approved"
  BY <1>2 DEF SerialInv, Fresh, CurrentRead, ReadsRequest
<1>4. SignalsOfOrders' /\ OnePositionPerSignal'
  BY <1>1, <1>2, <1>3, InsertKeeps DEF SerialInv, IInv
<1>5. /\ OneCall' /\ Fresh'
      /\ call'[c].stage = "done" /\ \A d \in Calls \ {c} : call'[d] = call[d]
  BY <1>2, ReturnAlone
<1>6. Unused'
  BY <1>2, <1>5 DEF SerialInv, Unused
<1>7. Lifecycle!Execute(s, o)
  BY <1>1, <1>2, <1>3 DEF Lifecycle!Execute, Lifecycle!Submit, Insert
<1> HIDE DEF s
<1> QED
  BY <1>2, <1>3, <1>4, <1>5, <1>6, <1>7 DEF SerialInv

LEMMA SerialRespond ==
  ASSUME SerialInv, IInv', NEW c \in Calls, Respond(c)
  PROVE  SerialInv' /\ UNCHANGED position /\ \E s \in Signals : Lifecycle!Answer(s)
<1> DEFINE s == call[c].signal
<1>1. /\ InProgress(c) /\ call[c].kind \in Answers /\ Return(c)
      /\ request' = [request EXCEPT ![s] = call[c].kind]
      /\ UNCHANGED <<overdue, order, position>>
  BY DEF Respond, InProgress
<1>2. s \in Signals /\ request[s] = "pending"
  BY <1>1 DEF SerialInv, Fresh, CurrentRead, ReadsRequest
<1>3. SerialInv'
  BY <1>1, SerialReturn
<1>4. Lifecycle!Answer(s)
  BY <1>1, <1>2 DEF Lifecycle!Answer, Answers
<1> HIDE DEF s
<1> QED
  BY <1>1, <1>2, <1>3, <1>4

-----------------------------------------------------------------------------

LEMMA InitSerial == Init => SerialInv /\ Lifecycle!Init
<1> SUFFICES ASSUME Init PROVE SerialInv /\ Lifecycle!Init
  OBVIOUS
<1>1. \A c \in Calls : call[c].stage = "idle" /\ ~InProgress(c)
  BY DEF Init, Idle, InProgress
<1>2. \A p \in Calls : position[p].status = "none"
  BY DEF Init, NoRow
<1>3. \A o \in Orders : order[o].status = "none"
  BY DEF Init
<1>4. SerialInv
  BY <1>1, <1>2, <1>3, InitIInv
     DEF SerialInv, OneCall, SignalsOfOrders, Unused, Fresh, OnePositionPerSignal
<1>5. Lifecycle!Init
  BY <1>2 DEF Init, Lifecycle!Init
<1> QED
  BY <1>4, <1>5

SerialStep == SerialInv' /\ KeepsClosed /\ [Lifecycle!Next]_(<<request, order, Holdings>>)

LEMMA NextSerial == MaxOverlap = 1 /\ SerialInv /\ [Next]_vars => SerialStep
<1> SUFFICES ASSUME MaxOverlap = 1, SerialInv, [Next]_vars PROVE SerialStep
  OBVIOUS
<1>0. IInv'
  BY NextIInv DEF SerialInv
(* A step that leaves the positions alone keeps what is held. *)
<1>a. position' = position => KeepsClosed /\ Holdings' = Holdings
  BY DEF KeepsClosed, Holdings
<1>1. ASSUME NEW s \in Signals, Ask(s) PROVE SerialStep
  <2>1. Lifecycle!Ask(s) /\ SerialInv' /\ position' = position
    BY <1>0, <1>1, <1>a, SerialAsk DEF Ask, Lifecycle!Ask, Holdings
  <2> QED
    BY <1>a, <2>1 DEF SerialStep, Lifecycle!Next
<1>2. ASSUME NEW s \in Signals, Elapse(s) PROVE SerialStep
  <2>1. UNCHANGED <<request, order, position>> /\ SerialInv'
    BY <1>0, <1>2, SerialAsk DEF Elapse
  <2> QED
    BY <1>a, <2>1 DEF SerialStep
<1>3. ASSUME NEW s \in Signals, NEW o \in Orders, Direct(s, o) PROVE SerialStep
  <2>1. Lifecycle!Direct(s, o) /\ SerialInv' /\ position' = position
    BY <1>0, <1>3, <1>a, SerialDirect DEF Direct, Insert, Lifecycle!Direct, Lifecycle!Submit, Holdings
  <2> QED
    BY <1>a, <2>1 DEF SerialStep, Lifecycle!Next
<1>4. ASSUME NEW c \in Calls, LoadRequest(c) PROVE SerialStep
  <2>1. UNCHANGED <<request, order, position>> /\ SerialInv'
    BY <1>0, <1>4, SerialLoadRequest DEF LoadRequest
  <2> QED
    BY <1>a, <2>1 DEF SerialStep
<1>5. ASSUME NEW c \in Calls, Respond(c) PROVE SerialStep
  BY <1>0, <1>5, <1>a, SerialRespond DEF SerialStep, Lifecycle!Next
<1>6. ASSUME NEW c \in Calls, Execute(c) PROVE SerialStep
  BY <1>0, <1>6, <1>a, SerialExecute DEF SerialStep, Lifecycle!Next
<1>7. ASSUME NEW c \in Calls, LoadOrder(c) PROVE SerialStep
  <2>1. UNCHANGED <<request, order, position>> /\ SerialInv'
    BY <1>0, <1>7, SerialLoadOrder DEF LoadOrder
  <2> QED
    BY <1>a, <2>1 DEF SerialStep
<1>8. ASSUME NEW c \in Calls, Flush(c) PROVE SerialStep
  <2>1. UNCHANGED <<request, order, position>> /\ SerialInv'
    BY <1>0, <1>8, SerialFlush DEF Flush
  <2> QED
    BY <1>a, <2>1 DEF SerialStep
<1>9. ASSUME NEW c \in Calls, Look(c) PROVE SerialStep
  <2>1. UNCHANGED <<request, order, position>> /\ SerialInv'
    BY <1>0, <1>9, SerialLook DEF Look
  <2> QED
    BY <1>a, <2>1 DEF SerialStep
<1>10. ASSUME NEW c \in Calls, CommitFill(c) PROVE SerialStep
  BY <1>0, <1>10, SerialFill DEF SerialStep, Lifecycle!Next
<1>11. ASSUME NEW c \in Calls, CommitClose(c) PROVE SerialStep
  BY <1>0, <1>11, SerialClose DEF SerialStep, Lifecycle!Next
<1>12. ASSUME NEW c \in Calls, LoadPosition(c) PROVE SerialStep
  <2>1. UNCHANGED <<request, order, position>> /\ SerialInv'
    BY <1>0, <1>12, SerialLoadPosition DEF LoadPosition
  <2> QED
    BY <1>a, <2>1 DEF SerialStep
<1>13. ASSUME NEW c \in Calls, Mark(c) PROVE SerialStep
  BY <1>0, <1>13, SerialMark DEF SerialStep
<1>14. ASSUME NEW c \in Calls, Abort(c) PROVE SerialStep
  <2>1. UNCHANGED <<request, order, position>> /\ SerialInv'
    BY <1>0, <1>14, SerialReturn DEF Abort
  <2> QED
    BY <1>a, <2>1 DEF SerialStep
<1>15. CASE UNCHANGED vars
  <2>1. UNCHANGED <<request, overdue, order, position, call>>
    BY <1>15 DEF vars
  <2>2. SerialInv'
    <3>1. OneCall' /\ Unused' /\ SignalsOfOrders' /\ OnePositionPerSignal'
      BY <2>1 DEF SerialInv, OneCall, InProgress, Unused, SignalsOfOrders, OnePositionPerSignal
    <3>2. Fresh'
      BY <2>1 DEF SerialInv, Fresh, InProgress, CurrentRead, ReadsRequest, ReadsOrder,
                  SeesOpen, OpenOf, Markable, Required
    <3> QED
      BY <1>0, <3>1, <3>2 DEF SerialInv
  <2> QED
    BY <1>a, <2>1, <2>2 DEF SerialStep
<1> QED
  BY <1>1, <1>2, <1>3, <1>4, <1>5, <1>6, <1>7, <1>8, <1>9, <1>10, <1>11, <1>12, <1>13,
     <1>14, <1>15 DEF Next

(* Requests one at a time never give a signal a second open position, and  *)
(* a filled order of the signal stands behind the one it has.              *)
THEOREM SerialRequestsHoldOnePosition ==
  ASSUME MaxOverlap = 1
  PROVE  Spec => []OnePositionPerSignal
<1>1. SerialInv => OnePositionPerSignal
  BY DEF SerialInv
<1>2. SerialInv /\ [Next]_vars => SerialInv'
  BY NextSerial DEF SerialStep
<1>3. Init => SerialInv
  BY InitSerial
<1> QED
  BY <1>1, <1>2, <1>3, PTL DEF Spec

(* Requests one at a time never write a position that is closed: neither   *)
(* its realized P&L nor its mark.                                          *)
THEOREM SerialRequestsKeepClosed ==
  ASSUME MaxOverlap = 1
  PROVE  Spec => ClosedIsFinal
<1>1. SerialInv /\ [Next]_vars =>
         [\A p \in Calls : position[p].status = "closed" => position'[p] = position[p]]_vars
  BY NextSerial DEF SerialStep, KeepsClosed
<1>2. SerialInv /\ [Next]_vars => SerialInv'
  BY NextSerial DEF SerialStep
<1>3. Init => SerialInv
  BY InitSerial
<1> QED
  BY <1>1, <1>2, <1>3, PTL DEF Spec, ClosedIsFinal

(* Requests one at a time are the life cycle that the routes promise: each *)
(* handler's commit is one step of PaperLifecycle, and every other step of *)
(* it changes nothing there.                                               *)
THEOREM SerialRequestsKeepLifecycle ==
  ASSUME MaxOverlap = 1
  PROVE  Spec => ImplementsLifecycle
<1>1. SerialInv /\ [Next]_vars =>
         [Lifecycle!Next]_(<<request, order, {position[p].signal : p \in {q \in Calls : position[q].status = "open"}}>>)
  BY NextSerial DEF SerialStep, Holdings
<1>2. SerialInv /\ [Next]_vars => SerialInv'
  BY NextSerial DEF SerialStep
<1>3. Init => SerialInv /\ Lifecycle!Init
  BY InitSerial
<1> QED
  BY <1>1, <1>2, <1>3, PTL
     DEF Spec, ImplementsLifecycle, Lifecycle!Spec, Lifecycle!vars

=============================================================================
