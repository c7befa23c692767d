--------------------------- MODULE DatabaseProofs ---------------------------
(***************************************************************************)
(* What holds of transactions over the pool of connections, for any        *)
(* requests and any size of the pool, and of the token that opens these    *)
(* connections, for every period, number of retries and validity that fit  *)
(* together as RdsTokenAssumption says.                                    *)
(***************************************************************************)
EXTENDS Transaction, RdsToken, FiniteSetTheorems, TLAPS

----------------------------------------------------------------------------
(* Transactions *)

\* The frames whose transaction holds a connection, and those on the stack of
\* their request.
OpenFrames == {f \in Frame : tx[f] = "open"}
Live == {f \in Frame : f[2] <= depth[f[1]]}

\* TypeOK without its last part, the pool's, which follows.
StateOK ==
  /\ phase \in [Req -> {"idle", "begin", "work", "end", "done"}]
  /\ depth \in [Req -> 0..2]
  /\ ctxDone \subseteq Req
  /\ work \in [Frame -> {"none", "ok", "error", "panic"}]
  /\ tx \in [Frame -> {"none", "invalid", "open", "committed", "rolledback"}]
  /\ result \in [Frame -> {"none", "nil", "err"}]

\* database/sql hands out no connection it does not have.
PoolInv == IsFiniteSet(OpenFrames) /\ Cardinality(OpenFrames) <= MaxOpenConns

\* A request has frames from its first call of BeginTransaction to the return
\* of its last end function.
DepthInv ==
  \A r \in Req :
    /\ phase[r] \in {"idle", "done"} => depth[r] = 0
    /\ phase[r] \in {"begin", "work", "end"} => depth[r] \in {1, 2}
    /\ phase[r] = "idle" => tx[<<r, 1>>] = "none"

\* The end function of a live frame has not returned, that of a frame that
\* was never begun neither; only the end function commits; a connection is
\* held by a live frame; and of the live frames only the top one of a request
\* that is in BeginTransaction has not been begun.
FrameInv ==
  \A f \in Frame :
    /\ (f \in Live \/ tx[f] = "none") => result[f] = "none"
    /\ result[f] = "none" => tx[f] # "committed"
    /\ tx[f] = "open" => f \in Live
    /\ (f \in Live /\ tx[f] = "none") => f = Top(f[1]) /\ phase[f[1]] = "begin"

IInv == StateOK /\ PoolInv /\ DepthInv /\ FrameInv /\ NilMeansCommitted

----------------------------------------------------------------------------
(* Frames *)

\* A frame is a request and a depth.
LEMMA Frames ==
  /\ \A r \in Req : \A d \in {1, 2} : <<r, d>> \in Frame
  /\ \A f \in Frame : f[1] \in Req /\ f[2] \in {1, 2} /\ f = <<f[1], f[2]>>
  BY DEF Frame

\* The top frame is one, and is live.
LEMMA TopLive ==
  ASSUME StateOK, NEW r \in Req, depth[r] \in {1, 2}
  PROVE  Top(r) \in Frame /\ Top(r) \in Live /\ Top(r)[1] = r
<1>1. Top(r) \in Frame /\ Top(r)[1] = r /\ Top(r)[2] = depth[r]
  BY Frames DEF Top
<1> QED
  BY <1>1 DEF Live

\* BeginTransaction pushes a frame.
LEMMA Push ==
  ASSUME StateOK, NEW r \in Req, depth[r] \in {0, 1}, depth' = [depth EXCEPT ![r] = @ + 1]
  PROVE  /\ Top(r)' \in Frame /\ Top(r)' = <<r, depth[r] + 1>>
         /\ Live' = Live \cup {Top(r)'}
         /\ \A q \in Req : q # r => Top(q)' = Top(q)
<1>1. depth'[r] = depth[r] + 1 /\ \A q \in Req : q # r => depth'[q] = depth[q]
  BY DEF StateOK
<1>2. Top(r)' = <<r, depth[r] + 1>> /\ \A q \in Req : q # r => Top(q)' = Top(q)
  BY <1>1 DEF Top
<1>3. Top(r)' \in Frame
  <2>1. depth[r] + 1 \in {1, 2}
    OBVIOUS
  <2> QED
    BY <1>2, <2>1, Frames
<1>4. ASSUME NEW f \in Frame PROVE f \in Live' <=> (f \in Live \/ f = Top(r)')
  <2>1. CASE f[1] = r
    <3>1. f[2] \in {1, 2} /\ f = <<r, f[2]>>
      BY <2>1, Frames
    <3>2. f = Top(r)' <=> f[2] = depth[r] + 1
      BY <1>2, <3>1
    <3>3. f[2] <= depth[r] + 1 <=> f[2] <= depth[r] \/ f[2] = depth[r] + 1
      BY <3>1
    <3> QED
      BY <1>1, <2>1, <3>2, <3>3 DEF Live
  <2>2. CASE f[1] # r
    <3>1. f # Top(r)' /\ depth'[f[1]] = depth[f[1]]
      BY <1>1, <1>2, <2>2, Frames
    <3> QED
      BY <3>1 DEF Live
  <2> QED
    BY <2>1, <2>2
<1>5. Live' \subseteq Frame /\ Live \subseteq Frame
  BY DEF Live
<1> QED
  BY <1>2, <1>3, <1>4, <1>5

\* The end function pops it.
LEMMA Pop ==
  ASSUME StateOK, NEW r \in Req, depth[r] \in {1, 2}, depth' = [depth EXCEPT ![r] = @ - 1]
  PROVE  Live' = Live \ {Top(r)} /\ \A q \in Req : q # r => Top(q)' = Top(q)
<1>1. depth'[r] = depth[r] - 1 /\ \A q \in Req : q # r => depth'[q] = depth[q]
  BY DEF StateOK
<1>2. Top(r) = <<r, depth[r]>> /\ \A q \in Req : q # r => Top(q)' = Top(q)
  BY <1>1 DEF Top
<1>3. ASSUME NEW f \in Frame PROVE f \in Live' <=> (f \in Live /\ f # Top(r))
  <2>1. CASE f[1] = r
    <3>1. f[2] \in {1, 2} /\ f = <<r, f[2]>>
      BY <2>1, Frames
    <3>2. f = Top(r) <=> f[2] = depth[r]
      BY <1>2, <3>1
    <3>3. f[2] <= depth[r] - 1 <=> f[2] <= depth[r] /\ f[2] # depth[r]
      BY <3>1
    <3> QED
      BY <1>1, <2>1, <3>2, <3>3 DEF Live
  <2>2. CASE f[1] # r
    <3>1. f # Top(r) /\ depth'[f[1]] = depth[f[1]]
      BY <1>1, <1>2, <2>2, Frames
    <3> QED
      BY <3>1 DEF Live
  <2> QED
    BY <2>1, <2>2
<1>4. Live' \subseteq Frame /\ Live \subseteq Frame
  BY DEF Live
<1> QED
  BY <1>2, <1>3, <1>4

\* No other step moves the stacks.
LEMMA Same ==
  ASSUME depth' = depth
  PROVE  Live' = Live /\ \A q \in Req : Top(q)' = Top(q)
  BY DEF Live, Top

----------------------------------------------------------------------------
(* IInv is inductive *)

\* Before any request begins, no connection is taken and IInv holds.
LEMMA InitInv == Init => IInv
<1> SUFFICES ASSUME Init PROVE IInv
  OBVIOUS
<1> USE TransactionAssumption, Frames DEF Init
<1>1. StateOK
  BY DEF StateOK
<1>2. OpenFrames = {}
  BY DEF OpenFrames
<1>3. PoolInv
  BY <1>2, FS_EmptySet DEF PoolInv
<1>4. Live = {}
  <2>1. \A f \in Frame : f[2] \in {1, 2} /\ depth[f[1]] = 0
    OBVIOUS
  <2> QED
    BY <2>1 DEF Live
<1>5. DepthInv /\ FrameInv
  BY <1>4 DEF DepthInv, FrameInv
<1>6. NilMeansCommitted
  BY DEF NilMeansCommitted
<1> QED
  BY <1>1, <1>3, <1>5, <1>6 DEF IInv

\* A step that opens no transaction takes no connection.
LEMMA PoolFrame ==
  ASSUME PoolInv, OpenFrames' \subseteq OpenFrames
  PROVE  PoolInv'
<1>1. IsFiniteSet(OpenFrames') /\ Cardinality(OpenFrames') <= Cardinality(OpenFrames)
  BY FS_Subset DEF PoolInv
<1>2. Cardinality(OpenFrames) \in Nat /\ Cardinality(OpenFrames') \in Nat
  BY <1>1, FS_CardinalityType DEF PoolInv
<1> QED
  BY <1>1, <1>2, TransactionAssumption DEF PoolInv

\* BeginTransaction, up to the call of the driver.
LEMMA CallBeginInv ==
  ASSUME IInv, NEW r \in Req, CallBegin(r)
  PROVE  IInv'
<1> USE TransactionAssumption DEF IInv
<1>1. /\ phase' = [phase EXCEPT ![r] = "begin"] /\ depth' = [depth EXCEPT ![r] = @ + 1]
      /\ UNCHANGED <<ctxDone, work, tx, result>>
  BY DEF CallBegin
<1>2. /\ phase[r] \in {"idle", "work"} /\ depth[r] \in {0, 1}
      /\ tx[<<r, depth[r] + 1>>] = "none"
  <2>1. CASE phase[r] = "idle"
    <3>1. depth[r] = 0 /\ depth[r] + 1 = 1 /\ tx[<<r, 1>>] = "none"
      BY <2>1 DEF DepthInv
    <3> QED
      BY <2>1, <3>1
  <2>2. CASE phase[r] = "work" /\ depth[r] = 1 /\ tx[<<r, 2>>] = "none"
    BY <2>2
  <2> QED
    BY <2>1, <2>2 DEF CallBegin
<1>3. /\ Top(r)' \in Frame /\ Top(r)' = <<r, depth[r] + 1>>
      /\ Live' = Live \cup {Top(r)'}
      /\ \A q \in Req : q # r => Top(q)' = Top(q)
  BY <1>1, <1>2, Push
<1>4. StateOK'
  <2>1. depth[r] + 1 \in 0..2
    BY <1>2
  <2> QED
    BY <1>1, <2>1 DEF StateOK
<1>5. PoolInv'
  BY <1>1, PoolFrame DEF OpenFrames
<1>6. DepthInv'
  <2>1. depth'[r] \in {1, 2} /\ phase'[r] = "begin"
    BY <1>1, <1>2 DEF StateOK
  <2>2. \A q \in Req : q # r => depth'[q] = depth[q] /\ phase'[q] = phase[q]
    BY <1>1 DEF StateOK
  <2> QED
    BY <1>1, <2>1, <2>2 DEF DepthInv
<1>7. FrameInv'
  <2> SUFFICES ASSUME NEW f \in Frame
               PROVE  /\ (f \in Live' \/ tx[f] = "none") => result[f] = "none"
                      /\ result[f] = "none" => tx[f] # "committed"
                      /\ tx[f] = "open" => f \in Live'
                      /\ (f \in Live' /\ tx[f] = "none") => f = Top(f[1])' /\ phase'[f[1]] = "begin"
    BY <1>1 DEF FrameInv
  <2>1. f[1] \in Req /\ phase'[r] = "begin" /\ \A q \in Req : q # r => phase'[q] = phase[q]
    BY <1>1, Frames DEF StateOK
  <2>2. CASE f = Top(r)'
    <3>1. f[1] = r /\ tx[f] = "none"
      BY <1>2, <1>3, <2>2
    <3> QED
      BY <1>3, <2>1, <2>2, <3>1 DEF FrameInv
  <2>3. CASE f # Top(r)'
    BY <1>2, <1>3, <2>1, <2>3 DEF FrameInv
  <2> QED
    BY <2>2, <2>3
<1>8. NilMeansCommitted'
  BY <1>1 DEF NilMeansCommitted
<1> QED
  BY <1>4, <1>5, <1>6, <1>7, <1>8

\* The driver begins the transaction of a frame that was never begun, or fails to.
LEMMA BeginInv ==
  ASSUME IInv, NEW r \in Req, BeginOk(r) \/ BeginErr(r)
  PROVE  IInv'
<1> USE TransactionAssumption DEF IInv
<1>1. PICK s \in {"open", "invalid"} : tx' = [tx EXCEPT ![Top(r)] = s] /\ (s = "open" => Free > 0)
  BY DEF BeginOk, BeginErr
<1>2. /\ phase[r] = "begin" /\ phase' = [phase EXCEPT ![r] = "work"]
      /\ UNCHANGED <<depth, ctxDone, work, result>>
  BY DEF BeginOk, BeginErr
<1>3. depth[r] \in {1, 2} /\ Top(r) \in Frame /\ Top(r) \in Live /\ Top(r)[1] = r
  BY <1>2, TopLive DEF DepthInv
<1>4. result[Top(r)] = "none"
  BY <1>3 DEF FrameInv
<1>5. tx'[Top(r)] = s /\ \A f \in Frame : f # Top(r) => tx'[f] = tx[f]
  BY <1>1, <1>3 DEF StateOK
<1>6. Live' = Live /\ \A q \in Req : Top(q)' = Top(q)
  BY <1>2, Same
<1>7. StateOK'
  BY <1>1, <1>2, <1>3 DEF StateOK
<1>8. PoolInv'
  <2>1. CASE s = "open"
    <3>1. OpenFrames' \subseteq OpenFrames \cup {Top(r)}
      BY <1>5 DEF OpenFrames
    <3>2. Cardinality(OpenFrames) < MaxOpenConns /\ Cardinality(OpenFrames) \in Nat
      <4>1. Cardinality(OpenFrames) \in Nat
        BY FS_CardinalityType DEF PoolInv
      <4>2. MaxOpenConns - Cardinality(OpenFrames) > 0
        BY <1>1, <2>1 DEF Free, OpenFrames
      <4> QED
        BY <4>1, <4>2
    <3>3. /\ IsFiniteSet(OpenFrames \cup {Top(r)})
          /\ Cardinality(OpenFrames \cup {Top(r)}) <= Cardinality(OpenFrames) + 1
      <4>1. IsFiniteSet(OpenFrames)
        BY DEF PoolInv
      <4>2. /\ IsFiniteSet(OpenFrames \cup {Top(r)})
            /\ Cardinality(OpenFrames \cup {Top(r)}) \in {Cardinality(OpenFrames), Cardinality(OpenFrames) + 1}
        BY <4>1, FS_AddElement, Zenon
      <4> QED
        BY <3>2, <4>2
    <3>4. /\ IsFiniteSet(OpenFrames') /\ Cardinality(OpenFrames') <= Cardinality(OpenFrames \cup {Top(r)})
          /\ Cardinality(OpenFrames') \in Nat /\ Cardinality(OpenFrames \cup {Top(r)}) \in Nat
      BY <3>1, <3>3, FS_Subset, FS_CardinalityType
    <3> QED
      BY <3>2, <3>3, <3>4 DEF PoolInv
  <2>2. CASE s = "invalid"
    <3>1. OpenFrames' \subseteq OpenFrames
      BY <1>5, <2>2 DEF OpenFrames
    <3> QED
      BY <3>1, PoolFrame
  <2> QED
    BY <2>1, <2>2
<1>9. phase'[r] = "work" /\ \A q \in Req : q # r => phase'[q] = phase[q]
  BY <1>2 DEF StateOK
<1>10. DepthInv'
  <2>1. \A q \in Req : q # r => tx'[<<q, 1>>] = tx[<<q, 1>>]
    BY <1>3, <1>5, Frames DEF Top
  <2> QED
    BY <1>2, <1>3, <1>9, <2>1 DEF DepthInv
<1>11. FrameInv'
  <2> SUFFICES ASSUME NEW f \in Frame
               PROVE  /\ (f \in Live \/ tx'[f] = "none") => result[f] = "none"
                      /\ result[f] = "none" => tx'[f] # "committed"
                      /\ tx'[f] = "open" => f \in Live
                      /\ (f \in Live /\ tx'[f] = "none") => f = Top(f[1]) /\ phase'[f[1]] = "begin"
    BY <1>2, <1>6, Frames DEF FrameInv
  <2>1. CASE f = Top(r)
    BY <1>3, <1>4, <1>5, <2>1
  <2>2. CASE f # Top(r)
    <3>1. f[1] \in Req /\ tx'[f] = tx[f]
      BY <1>5, <2>2, Frames
    <3> QED
      BY <1>9, <2>2, <3>1 DEF FrameInv
  <2> QED
    BY <2>1, <2>2
<1>12. NilMeansCommitted'
  BY <1>2, <1>4, <1>5 DEF NilMeansCommitted
<1> QED
  BY <1>7, <1>8, <1>10, <1>11, <1>12

\* The work of a frame that has not been ended returns.
LEMMA WorkEndsInv ==
  ASSUME IInv, NEW r \in Req, NEW how \in {"ok", "error", "panic"}, WorkEnds(r, how)
  PROVE  IInv'
<1> USE TransactionAssumption DEF IInv
<1>1. /\ phase[r] = "work" /\ phase' = [phase EXCEPT ![r] = "end"]
      /\ work' = [work EXCEPT ![Top(r)] = how]
      /\ UNCHANGED <<depth, ctxDone, tx, result>>
  BY DEF WorkEnds
<1>2. depth[r] \in {1, 2} /\ Top(r) \in Frame /\ Top(r) \in Live
  BY <1>1, TopLive DEF DepthInv
<1>4. Live' = Live /\ \A q \in Req : Top(q)' = Top(q)
  BY <1>1, Same
<1>5. phase'[r] = "end" /\ \A q \in Req : q # r => phase'[q] = phase[q]
  BY <1>1 DEF StateOK
<1>6. StateOK'
  BY <1>1, <1>2 DEF StateOK
<1>7. PoolInv'
  BY <1>1, PoolFrame DEF OpenFrames
<1>8. DepthInv'
  BY <1>1, <1>2, <1>5 DEF DepthInv
<1>9. FrameInv'
  BY <1>1, <1>4, <1>5, Frames DEF FrameInv
<1>10. NilMeansCommitted'
  BY <1>1 DEF NilMeansCommitted
<1> QED
  BY <1>6, <1>7, <1>8, <1>9, <1>10

\* The end of a context, and what database/sql does then.
LEMMA ContextInv ==
  ASSUME IInv, (\E r \in Req : CtxDone(r)) \/ (\E f \in Frame : DriverRollback(f)) \/ UNCHANGED vars
  PROVE  IInv'
<1> USE TransactionAssumption DEF IInv
<1>1. UNCHANGED <<phase, depth, work, result>> /\ ctxDone' \subseteq Req
  BY DEF CtxDone, DriverRollback, vars, StateOK
<1>2. /\ tx' \in [Frame -> {"none", "invalid", "open", "committed", "rolledback"}]
      /\ \A f \in Frame : tx'[f] = tx[f] \/ (tx[f] = "open" /\ tx'[f] = "rolledback")
  BY DEF CtxDone, DriverRollback, vars, StateOK
<1>3. Live' = Live /\ \A q \in Req : Top(q)' = Top(q)
  BY <1>1, Same
<1>4. StateOK'
  BY <1>1, <1>2 DEF StateOK
<1>5. PoolInv'
  <2>1. OpenFrames' \subseteq OpenFrames
    BY <1>2 DEF OpenFrames
  <2> QED
    BY <2>1, PoolFrame
<1>6. DepthInv'
  <2>1. \A r \in Req : <<r, 1>> \in Frame
    BY Frames
  <2> QED
    BY <1>1, <1>2, <2>1 DEF DepthInv
<1>7. FrameInv'
  BY <1>1, <1>2, <1>3, Frames DEF FrameInv
<1>8. NilMeansCommitted'
  BY <1>1, <1>2 DEF NilMeansCommitted
<1> QED
  BY <1>4, <1>5, <1>6, <1>7, <1>8

\* The end function leaves its frame: it commits only what is open, and
\* returns nil only if it has committed.
LEMMA LeaveInv ==
  ASSUME IInv, NEW r \in Req, phase[r] = "end",
         NEW s \in {"committed", RolledBack(tx[Top(r)])}, NEW res \in {"nil", "err"},
         Leave(r, s, res),
         s = "committed" => tx[Top(r)] = "open",
         res = "nil" => s = "committed"
  PROVE  IInv'
<1> USE TransactionAssumption DEF IInv
<1>1. /\ tx' = [tx EXCEPT ![Top(r)] = s] /\ result' = [result EXCEPT ![Top(r)] = res]
      /\ depth' = [depth EXCEPT ![r] = @ - 1] /\ ctxDone' = ctxDone
  BY DEF Leave
<1>2. depth[r] \in {1, 2} /\ Top(r) \in Frame /\ Top(r) \in Live /\ Top(r)[1] = r
  BY TopLive DEF DepthInv
<1>3. Live' = Live \ {Top(r)} /\ \A q \in Req : q # r => Top(q)' = Top(q)
  BY <1>1, <1>2, Pop
<1>4. tx[Top(r)] \notin {"none", "committed"}
  BY <1>2 DEF FrameInv
<1>5. s \in {"invalid", "committed", "rolledback"}
  BY <1>2, <1>4 DEF StateOK, RolledBack
<1>6. /\ tx'[Top(r)] = s /\ result'[Top(r)] = res
      /\ \A f \in Frame : f # Top(r) => tx'[f] = tx[f] /\ result'[f] = result[f]
  BY <1>1, <1>2 DEF StateOK
<1>7. work' = work \/ (depth[r] = 2 /\ work' = [work EXCEPT ![<<r, 1>>] = "panic"])
  BY <1>2 DEF Leave
<1>8. /\ phase' \in [Req -> {"idle", "begin", "work", "end", "done"}]
      /\ phase'[r] \in {"done", "work", "end"} /\ (phase'[r] = "done" <=> depth[r] = 1)
      /\ \A q \in Req : q # r => phase'[q] = phase[q]
  BY <1>2 DEF Leave, StateOK
<1>9. depth'[r] = depth[r] - 1 /\ \A q \in Req : q # r => depth'[q] = depth[q]
  BY <1>1 DEF StateOK
<1>10. StateOK'
  <2>1. depth[r] - 1 \in 0..2
    BY <1>2
  <2>2. depth' \in [Req -> 0..2]
    BY <1>1, <2>1 DEF StateOK
  <2>3. work' \in [Frame -> {"none", "ok", "error", "panic"}]
    BY <1>7 DEF StateOK
  <2>4. tx' \in [Frame -> {"none", "invalid", "open", "committed", "rolledback"}]
    BY <1>1, <1>5 DEF StateOK
  <2>5. result' \in [Frame -> {"none", "nil", "err"}]
    BY <1>1 DEF StateOK
  <2> QED
    BY <1>1, <1>8, <2>2, <2>3, <2>4, <2>5 DEF StateOK
<1>11. PoolInv'
  <2>1. OpenFrames' \subseteq OpenFrames
    BY <1>5, <1>6 DEF OpenFrames
  <2> QED
    BY <2>1, PoolFrame
<1>12. DepthInv'
  <2>1. \A q \in Req : q # r => tx'[<<q, 1>>] = tx[<<q, 1>>]
    BY <1>2, <1>6, Frames DEF Top
  <2>2. /\ phase'[r] = "done" => depth'[r] = 0
        /\ phase'[r] # "done" => depth'[r] = 1
    BY <1>2, <1>8, <1>9
  <2> QED
    BY <1>8, <1>9, <2>1, <2>2 DEF DepthInv
<1>13. FrameInv'
  <2> SUFFICES ASSUME NEW f \in Frame
               PROVE  /\ (f \in Live' \/ tx'[f] = "none") => result'[f] = "none"
                      /\ result'[f] = "none" => tx'[f] # "committed"
                      /\ tx'[f] = "open" => f \in Live'
                      /\ (f \in Live' /\ tx'[f] = "none") => f = Top(f[1])' /\ phase'[f[1]] = "begin"
    BY DEF FrameInv
  <2>1. CASE f = Top(r)
    BY <1>3, <1>5, <1>6, <2>1
  <2>2. CASE f # Top(r)
    <3>1. f[1] \in Req /\ tx'[f] = tx[f] /\ result'[f] = result[f] /\ (f \in Live' <=> f \in Live)
      BY <1>3, <1>6, <2>2, Frames
    <3> QED
      BY <1>3, <1>8, <3>1 DEF FrameInv
  <2> QED
    BY <2>1, <2>2
<1>14. NilMeansCommitted'
  BY <1>6 DEF NilMeansCommitted
<1> QED
  BY <1>10, <1>11, <1>12, <1>13, <1>14

\* The three ways the end function ends.
LEMMA EndInv ==
  ASSUME IInv, NEW r \in Req, EndWithRollback(r) \/ EndWithCommit(r) \/ EndCommitFails(r)
  PROVE  IInv'
<1>1. phase[r] = "end"
  BY DEF EndWithRollback, EndWithCommit, EndCommitFails
<1>2. RolledBack(tx[Top(r)]) # "committed"
  <2>1. Top(r) \in Frame /\ Top(r) \in Live
    BY <1>1, TopLive DEF IInv, DepthInv
  <2> QED
    BY <2>1 DEF IInv, FrameInv, RolledBack
<1>3. CASE EndWithRollback(r)
  BY <1>1, <1>2, <1>3, LeaveInv DEF EndWithRollback
<1>4. CASE EndWithCommit(r)
  BY <1>1, <1>4, LeaveInv DEF EndWithCommit
<1>5. CASE EndCommitFails(r)
  <2>1. PICK s \in {RolledBack(tx[Top(r)])} \cup
                   (IF tx[Top(r)] = "open" /\ r \notin ctxDone THEN {"committed"} ELSE {}) :
          Leave(r, s, "err")
    BY <1>5 DEF EndCommitFails
  <2>2. /\ s \in {"committed", RolledBack(tx[Top(r)])}
        /\ s = "committed" => tx[Top(r)] = "open"
    BY <1>2, <2>1
  <2> QED
    BY <1>1, <2>1, <2>2, LeaveInv
<1> QED
  BY <1>3, <1>4, <1>5

----------------------------------------------------------------------------

\* IInv holds throughout every behaviour.
THEOREM Invariance == Spec => []IInv
<1>1. IInv /\ [Next]_vars => IInv'
  BY CallBeginInv, BeginInv, WorkEndsInv, ContextInv, EndInv DEF Next
<1> QED
  BY <1>1, InitInv, PTL DEF Spec

\* The variables keep their types, and no more transactions are open than the
\* pool has connections, however many requests nest.
THEOREM TypeCorrect == Spec => []TypeOK
<1>1. IInv => TypeOK
  <2> SUFFICES ASSUME IInv PROVE TypeOK
    OBVIOUS
  <2>1. Cardinality(OpenFrames) \in Nat /\ Cardinality(OpenFrames) <= MaxOpenConns
    BY FS_CardinalityType DEF IInv, PoolInv
  <2>2. Free = MaxOpenConns - Cardinality(OpenFrames)
    BY DEF Free, OpenFrames
  <2>3. Free >= 0
    BY <2>1, <2>2, TransactionAssumption
  <2> QED
    BY <2>3 DEF IInv, StateOK, TypeOK
<1> QED
  BY <1>1, Invariance, PTL

\* An end function that returns nil has committed.
THEOREM NilCorrect == Spec => []NilMeansCommitted
<1>1. IInv => NilMeansCommitted
  BY DEF IInv
<1> QED
  BY <1>1, Invariance, PTL

\* A request that is over has given its connections back, however it ended.
THEOREM ReleaseCorrect == Spec => []NoConnectionLeaks
<1>1. IInv => NoConnectionLeaks
  <2> SUFFICES ASSUME IInv, NEW f \in Frame, phase[f[1]] = "done" PROVE tx[f] # "open"
    BY DEF NoConnectionLeaks
  <2>1. depth[f[1]] = 0 /\ f[2] \in {1, 2}
    BY Frames DEF IInv, DepthInv
  <2>2. f \notin Live
    BY <2>1 DEF Live
  <2> QED
    BY <2>2 DEF IInv, FrameInv
<1> QED
  BY <1>1, Invariance, PTL

----------------------------------------------------------------------------
(* The token *)

\* The time that the failed builds of this series and their pauses took.
Spent == (BuildTime + 1) * (Retries - left)

\* What makes the two invariants inductive: how old the token may be at each
\* point of a series none of whose predecessors failed,
AgeBound ==
  (opens /\ pc # "refused" /\ ~failed) =>
    /\ age >= 0
    /\ pc = "sleep" => age <= t
    /\ pc = "build" => age <= Period + Spent + t
    /\ pc = "delay" => age <= Period + Spent - 1 + t

\* and how long AWS can have answered while the token is from before that.
OutageBound ==
  (opens /\ pc # "refused" /\ age \notin 0..up) =>
    /\ pc \in {"sleep", "delay"} => up <= BuildTime + t
    /\ pc = "build" => up <= Period + BuildTime + t

TokenInv ==
  /\ TokenTypeOK /\ AgeBound /\ OutageBound
  /\ pc = "sleep" => t <= Period
  /\ pc = "build" => t <= BuildTime
  /\ pc = "delay" => t <= 1 /\ left < Retries
  /\ pc = "new" => ~opens

\* The initial state satisfies the inductive invariant.
LEMMA TokenInitInv == TokenInit => TokenInv
<1> SUFFICES ASSUME TokenInit PROVE TokenInv
  OBVIOUS
<1>1. ~opens /\ ~failed /\ opens \in BOOLEAN /\ failed \in BOOLEAN
  BY Zenon DEF TokenInit
<1>2. pc = "new" /\ left = 0 /\ t = 0 /\ age = -1 /\ up = 0 /\ conn = "none"
  BY Zenon DEF TokenInit
<1>3. TokenTypeOK
  BY <1>1, <1>2, RdsTokenAssumption DEF TokenTypeOK
<1> QED
  BY <1>1, <1>2, <1>3 DEF TokenInv, AgeBound, OutageBound

\* A tick that saturates keeps the order of two times and adds at most one.
LEMMA LaterBounds ==
  ASSUME NEW x \in -1..Cap
  PROVE  Later(x) \in -1..Cap /\ x <= Later(x) /\ Later(x) <= x + 1 /\ (x >= 0 => Later(x) >= 0)
BY RdsTokenAssumption DEF Later

LEMMA LaterMonotonic ==
  ASSUME NEW x \in 0..Cap, NEW y \in -1..Cap, x <= y
  PROVE  Later(x) <= Later(y)
BY RdsTokenAssumption DEF Later

\* A series spends no time before its first build, one build and one pause more
\* with every retry, and no more than all its retries take.
LEMMA SpentBounds ==
  ASSUME RdsTokenAssumption, left \in 0..Retries
  PROVE  /\ Spent \in Nat /\ Spent <= (BuildTime + 1) * Retries
         /\ left = Retries => Spent = 0
         /\ left' = left - 1 => Spent' = Spent + BuildTime + 1
<1> DEFINE m == BuildTime + 1
<1>1. m \in Nat /\ Retries \in Nat /\ Retries - left \in Nat
  BY DEF RdsTokenAssumption
<1>2. m * (Retries - left) \in Nat /\ m * (Retries - left) <= m * Retries
  BY <1>1
<1>3. left = Retries => m * (Retries - left) = 0
  BY <1>1
<1>4. left' = left - 1 => m * (Retries - left') = m * (Retries - left) + m
  BY <1>1
<1> QED
  BY <1>1, <1>2, <1>3, <1>4 DEF Spent

\* Every step keeps the inductive invariant.
LEMMA TokenNextInv == TokenInv /\ [TokenNext]_tokenVars => TokenInv'
<1> SUFFICES ASSUME TokenInv, [TokenNext]_tokenVars PROVE TokenInv'
  OBVIOUS
<1> USE RdsTokenAssumption DEF TokenInv, TokenTypeOK
<1>1. CASE Tick
  <2>1. /\ age' = Later(age) /\ up' = Later(up)
        /\ UNCHANGED <<pc, opens, left, failed, conn>>
    BY <1>1 DEF Tick
  <2>2. /\ t' \in 0..(Period + BuildTime)
        /\ pc \notin {"refused", "new"} => t' = t + 1
        /\ pc = "sleep" => t' <= Period
        /\ pc = "build" => t' <= BuildTime
        /\ pc = "delay" => t' <= 1
    BY <1>1 DEF Tick, Limit
  <2>3. /\ age' \in -1..Cap /\ age' <= age + 1 /\ (age >= 0 => age' >= 0)
        /\ up' \in -1..Cap /\ up' <= up + 1
    BY <2>1, LaterBounds
  <2>4. age \in 0..up => age' \in 0..up'
    BY <2>1, <2>3, LaterMonotonic
  <2>5. TokenTypeOK'
    BY <2>1, <2>2, <2>3
  <2>6. AgeBound'
    <3>1. Spent' = Spent /\ Spent \in Nat
      BY <2>1, SpentBounds DEF Spent
    <3> QED
      BY <2>1, <2>2, <2>3, <3>1 DEF AgeBound
  <2>7. OutageBound'
    BY <2>1, <2>2, <2>3, <2>4 DEF OutageBound
  <2> QED
    BY <2>1, <2>2, <2>5, <2>6, <2>7
<1>2. CASE AwsFlips
  BY <1>2 DEF AwsFlips, AgeBound, OutageBound, Spent
<1>3. CASE NewDriver
  BY <1>3 DEF NewDriver, Series, AgeBound, OutageBound
<1>4. CASE NewDriverRefused
  BY <1>4 DEF NewDriverRefused, AgeBound, OutageBound
<1>5. CASE BuildOk
  <2>1. opens' /\ ~failed' /\ opens' \in BOOLEAN /\ failed' \in BOOLEAN
    BY <1>5, Zenon DEF BuildOk, Sleep
  <2>2. /\ pc' = "sleep" /\ t' = 0 /\ age' = 0 /\ up >= 0
        /\ UNCHANGED <<left, up, conn>>
    BY <1>5 DEF BuildOk, Sleep
  <2> QED
    BY <2>1, <2>2 DEF AgeBound, OutageBound
<1>6. CASE BuildFails
  <2>1. /\ pc = "build" /\ up < t /\ left > 0 /\ pc' = "delay" /\ t' = 0 /\ left' = left - 1
        /\ UNCHANGED <<opens, age, up, failed, conn>>
    BY <1>6 DEF BuildFails, Unanswered
  <2>2. Spent \in Nat /\ Spent' = Spent + BuildTime + 1
    BY <2>1, SpentBounds
  <2>3. AgeBound'
    BY <2>1, <2>2 DEF AgeBound
  <2>4. OutageBound'
    BY <2>1 DEF OutageBound
  <2> QED
    BY <2>1, <2>3, <2>4
<1>7. CASE SeriesFails
  BY <1>7 DEF SeriesFails, Unanswered, Sleep, AgeBound, OutageBound
<1>8. CASE Retry
  <2>1. Spent' = Spent /\ Spent \in Nat
    BY <1>8, SpentBounds DEF Retry, Series, Spent
  <2> QED
    BY <1>8, <2>1 DEF Retry, Series, AgeBound, OutageBound
<1>9. CASE Rotate
  <2>1. Spent' = 0
    BY <1>9 DEF Rotate, Series, Spent
  <2> QED
    BY <1>9, <2>1 DEF Rotate, Series, AgeBound, OutageBound
<1>10. CASE Open
  BY <1>10 DEF Open, AgeBound, OutageBound, Spent
<1>11. CASE UNCHANGED tokenVars
  BY <1>11 DEF tokenVars, AgeBound, OutageBound, Spent
<1> QED
  BY <1>1, <1>2, <1>3, <1>4, <1>5, <1>6, <1>7, <1>8, <1>9, <1>10, <1>11 DEF TokenNext

\* The inductive invariant holds in every reachable state.
THEOREM TokenInvariance == TokenSpec => []TokenInv
BY TokenInitInv, TokenNextInv, PTL DEF TokenSpec

\* Every variable keeps its type.
THEOREM TokenTypeCorrect == TokenSpec => []TokenTypeOK
<1>1. TokenInv => TokenTypeOK
  BY DEF TokenInv
<1> QED
  BY <1>1, TokenInvariance, PTL

\* A token that Open presents is valid unless every build of a series failed.
THEOREM FreshCorrect == TokenSpec => []FreshUnlessSeriesFailed
<1>1. TokenInv => FreshUnlessSeriesFailed
  <2> SUFFICES ASSUME TokenInv, opens, pc # "refused", ~failed PROVE age \in 0..Validity
    BY DEF FreshUnlessSeriesFailed
  <2> USE RdsTokenAssumption DEF TokenInv, TokenTypeOK
  <2>1. Spent \in Nat /\ Spent <= (BuildTime + 1) * Retries /\ (BuildTime + 1) * Retries \in Nat
    BY SpentBounds
  <2>2. age >= 0 /\ age <= Period + Spent + BuildTime
    BY <2>1 DEF AgeBound
  <2> QED
    BY <2>1, <2>2
<1> QED
  BY <1>1, TokenInvariance, PTL

\* One period and two builds after an outage the token is newer than it.
THEOREM RenewalCorrect == TokenSpec => []RenewedAfterOutage
<1>1. TokenInv => RenewedAfterOutage
  BY RdsTokenAssumption DEF TokenInv, TokenTypeOK, OutageBound, RenewedAfterOutage
<1> QED
  BY <1>1, TokenInvariance, PTL
=============================================================================
