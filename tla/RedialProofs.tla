----------------------------- MODULE RedialProofs ------------------------------
(***************************************************************************)
(* Proofs about Redial, for any goroutines that call Close and any number  *)
(* of connections.  Inv says what holds in any case (the types), what      *)
(* holds as long as no Close has met fields that are not its own           *)
(* (Orderly), and what holds as long as nobody has called Close from       *)
(* outside (Alone).  Each step keeps Orderly unless it sets stray, and     *)
(* Alone makes sure that none does.  Ever, in the second part, holds in    *)
(* any case: it is what Attended and NoCloseHangs follow from.             *)
(***************************************************************************)
EXTENDS Redial, TLAPS

Resets == {"newOnce", "newClose", "setConn"}
Befores == {"none", "start", "select", "selected", "exit"}
Working == {"signal", "sync", "wait", "check", "hangUp", "forget", "spawn"}

Resetting(S) == made > 0 /\ redialer[made - 1] \in S

TypeOK ==
  /\ closeOnce \in Refs /\ close \in Refs /\ done \in Refs /\ conn \in Refs /\ made \in Refs
  /\ once \in [Gens -> {"new", "running", "done"}]
  /\ closed \subseteq Gens /\ finished \subseteq Refs
  /\ sock \in [Gens -> {"none", "open", "broken", "closed"}]
  /\ at \in [Procs -> Befores \union Working \union {"outside", "leave", "await", "return", "returned", "ended"}]
  /\ of \in [Procs -> Refs] /\ chan \in [Procs -> Refs]
  /\ redialer \in [Refs -> Resets \union {"idle", "dialing", "gaveUp", "finished"}]
  /\ \A r \in Refs : redialer[r] = "gaveUp" => Redialretrys > 0
  /\ dialed \in [Refs -> Refs]
  /\ outside \in BOOLEAN /\ stray \in BOOLEAN /\ panicked \in BOOLEAN

\* Where a goroutine of either kind can be, and what its Close works on.
PlacesOK ==
  /\ \A p \in Closers : at[p] \notin Befores \union {"leave", "ended"}
  /\ \A g \in Gens : at[g] \notin {"outside", "returned"}
  /\ \A p \in Procs : at[p] \in Working \union {"await", "return"} => of[p] \in Gens

\* One dial or one reset at a time, for the connection after its own.
DialersOK ==
  /\ \A r \in Refs : redialer[r] = "dialing" => r = made
  /\ \A r \in Refs : redialer[r] \in Resets => r = made - 1 /\ dialed[r] = made
  /\ closeOnce = IF Resetting({"newOnce"}) THEN made - 1 ELSE made
  /\ close = IF Resetting({"newOnce", "newClose"}) THEN made - 1 ELSE made

LoopsOK ==
  /\ \A g \in Gens :
       /\ at[g] = "none" <=> g > made \/ (g = made /\ Resetting(Resets))
       /\ at[g] \in {"start", "select", "selected", "exit"} => g = made /\ conn = g
       /\ at[g] \in Befores <=> g \notin finished
  /\ done <= made
  /\ made > 0 => (done = made <=> at[made] \notin {"none", "start"})

OncesOK ==
  \A g \in Gens :
    /\ g < made => once[g] # "new" /\ sock[g] = "closed"
    /\ g > made => once[g] = "new" /\ sock[g] = "none"
    /\ once[g] = "new" => g \notin closed /\ sock[g] # "closed"
    /\ g = made => Resetting(Resets) \/ conn = g \/ sock[g] = "closed"
    /\ g = made /\ redialer[g] = "dialing" =>
         once[g] # "new" /\ g \in finished /\ sock[g] = "closed"

BodyOK(p) ==
  /\ at[p] \in Working \union {"return"} => once[of[p]] = "running"
  /\ at[p] \in Working => of[p] = made /\ redialer[made] # "dialing"
  /\ at[p] = "signal" => of[p] \notin closed
  /\ at[p] = "wait" => chan[p] = made
  /\ at[p] \in {"signal", "sync", "wait", "check", "hangUp"} => sock[made] # "closed"
  /\ at[p] \in {"wait", "check", "hangUp", "forget", "spawn"} => done = made
  /\ at[p] \in {"check", "hangUp", "forget", "spawn"} => made \in finished
  /\ at[p] \in {"check", "hangUp", "forget"} => conn = made
  /\ at[p] \in {"forget", "spawn"} => sock[made] = "closed"

OneBody ==
  \A p, q \in Procs :
    at[p] \in Working \union {"return"} /\ at[q] \in Working \union {"return"} /\ of[p] = of[q] => p = q

\* What holds as long as no Close has strayed.
Orderly == DialersOK /\ LoopsOK /\ OncesOK /\ (\A p \in Procs : BodyOK(p)) /\ OneBody

\* What holds as long as nobody has called Close from outside.
Alone ==
  /\ \A p \in Closers : at[p] = "outside"
  /\ \A g \in Gens : at[g] \in Working \union {"return"} => of[g] = g
  /\ \A g \in Gens : at[g] \in Befores \union {"leave"} => once[g] = "new"

Inv ==
  /\ TypeOK /\ PlacesOK
  /\ ~stray => Orderly /\ ~panicked
  /\ ~outside => Alone /\ ~stray

-----------------------------------------------------------------------------
(* What a step leaves of the invariant when it does not touch a part.      *)

LEMMA DialersStay ==
  ASSUME DialersOK, UNCHANGED <<closeOnce, close, redialer, dialed, made>>
  PROVE  DialersOK'
BY DEF DialersOK, Resetting

\* A goroutine that moves is no flushLoop before its Close.
LEMMA LoopsStay ==
  ASSUME TypeOK, LoopsOK, UNCHANGED <<done, conn, finished, redialer, made>>,
         \A g \in Gens : at'[g] = at[g] \/ (at[g] \notin Befores /\ at'[g] \notin Befores)
  PROVE  LoopsOK'
<1>1. ASSUME NEW g \in Gens
      PROVE  /\ at'[g] \in Befores <=> at[g] \in Befores
             /\ at'[g] \in Befores => at'[g] = at[g]
  OBVIOUS
<1>2. ASSUME NEW g \in Gens
      PROVE  /\ at'[g] = "none" <=> at[g] = "none"
             /\ at'[g] = "start" <=> at[g] = "start"
             /\ at'[g] \in {"start", "select", "selected", "exit"} <=> at[g] \in {"start", "select", "selected", "exit"}
  BY <1>1 DEF Befores
<1>3. made > 0 => (done' = made' <=> at'[made] \notin {"none", "start"})
  <2>1. CASE made \in Gens
    BY <1>2, <2>1 DEF LoopsOK
  <2>2. CASE made \notin Gens
    BY <2>2, RedialAssumption DEF TypeOK, Refs, Gens
  <2> QED BY <2>1, <2>2
<1> QED
  BY <1>1, <1>2, <1>3 DEF LoopsOK, Resetting

LEMMA OneBodyStays ==
  ASSUME OneBody,
         \A q \in Procs : at'[q] \in Working \union {"return"} =>
            at[q] \in Working \union {"return"} /\ of'[q] = of[q]
  PROVE  OneBody'
BY DEF OneBody

\* The Close of a flushLoop meets its own fields when there is no other Close.
LEMMA OwnFields ==
  ASSUME Inv, ~outside, NEW p \in Procs, at[p] \in Working \union {"leave"}
  PROVE  p \in Gens /\ p = made /\ closeOnce = p /\ close = p /\ done = p /\ (at[p] \in Working => of[p] = p)
<1> USE RedialAssumption
<1>1. TypeOK /\ PlacesOK /\ Orderly /\ Alone
  BY DEF Inv
<1>2. p \in Gens
  BY <1>1 DEF Alone, Procs, Working
<1>3. p = made
  <2>1. CASE at[p] = "leave"
    BY <1>1, <1>2, <2>1 DEF Orderly, LoopsOK, OncesOK, Alone, Gens, Refs, TypeOK
  <2>2. CASE at[p] \in Working
    BY <1>1, <1>2, <2>2 DEF Orderly, BodyOK, Alone
  <2> QED BY <2>1, <2>2
<1>4. at[p] \notin {"none", "start"}
  BY DEF Working
<1>5. ~Resetting(Resets) /\ done = p
  BY <1>1, <1>2, <1>3, <1>4 DEF Orderly, LoopsOK, Gens
<1>6. closeOnce = p /\ close = p
  BY <1>1, <1>3, <1>5 DEF Orderly, DialersOK, Resetting, Resets
<1> QED BY <1>1, <1>2, <1>3, <1>5, <1>6 DEF Alone

-----------------------------------------------------------------------------
(* Close.                                                                  *)

LEMMA DoKeeps == ASSUME NEW p \in Procs, Inv, Do(p) PROVE Inv'
<1> USE RedialAssumption
<1>0. TypeOK /\ PlacesOK
  BY DEF Inv
<1>1. closeOnce \in Gens /\ at[p] \in {"outside", "leave"} /\ of' = [of EXCEPT ![p] = closeOnce]
  BY <1>0 DEF TypeOK, Do, Calls, Gens, Refs
<1>2. UNCHANGED <<closeOnce, close, done, conn, closed, finished, sock, chan, redialer, dialed, made, panicked>>
  BY DEF Do, fields, redialVars
<1>3. \/ /\ once[closeOnce] = "new" /\ once' = [once EXCEPT ![closeOnce] = "running"]
         /\ at' = [at EXCEPT ![p] = "signal"]
      \/ once[closeOnce] # "new" /\ once' = once /\ at' = [at EXCEPT ![p] = "await"]
  BY DEF Do, Goto
<1>4. TypeOK'
  <2>1. outside' \in BOOLEAN /\ stray' \in BOOLEAN
    BY DEF Do
  <2> QED BY <1>0, <1>1, <1>2, <1>3, <2>1 DEF TypeOK, Working, Refs, Gens
<1>5. PlacesOK'
  BY <1>0, <1>1, <1>3 DEF TypeOK, PlacesOK, Procs, Befores, Working
<1>6. ASSUME ~stray' PROVE Orderly' /\ ~panicked'
  <2>1. ~stray /\ Orderly /\ ~panicked
    BY <1>6 DEF Inv, Do
  <2>2. DialersOK'
    BY <1>2, <2>1, DialersStay DEF Orderly
  <2>3. LoopsOK'
    <3>1. \A g \in Gens : at'[g] = at[g] \/ (at[g] \notin Befores /\ at'[g] \notin Befores)
      BY <1>0, <1>1, <1>3 DEF TypeOK, Procs, Befores
    <3> QED BY <1>2, <2>1, <3>1, <1>0, LoopsStay DEF Orderly
  <2>4. OncesOK'
    <3>1. \A g \in Gens : once'[g] = once[g] \/ (g = closeOnce /\ once[g] = "new" /\ once'[g] = "running")
      BY <1>0, <1>1, <1>3 DEF TypeOK
    <3>2. closeOnce <= made
      BY <1>0, <2>1 DEF TypeOK, Orderly, DialersOK, Refs
    <3>3. Resetting(Resets)' = Resetting(Resets)
      BY <1>2 DEF Resetting
    <3>4. \A g \in Gens : g > made => g # closeOnce
      BY <1>0, <1>1, <3>2 DEF TypeOK, Refs, Gens
    <3> QED BY <1>2, <2>1, <3>1, <3>3, <3>4 DEF Orderly, OncesOK
  <2>5. once[closeOnce] = "new" => closeOnce = made /\ redialer[made] # "dialing" /\ made \notin closed /\ sock[made] # "closed"
    <3>1. SUFFICES ASSUME once[closeOnce] = "new" PROVE closeOnce = made /\ redialer[made] # "dialing" /\ made \notin closed /\ sock[made] # "closed"
      OBVIOUS
    <3>2. closeOnce \in {made - 1, made} /\ made \in Int /\ closeOnce \in Int
      BY <1>0, <2>1 DEF TypeOK, Orderly, DialersOK, Refs
    <3>3. ~(closeOnce < made)
      BY <1>1, <2>1, <3>1 DEF Orderly, OncesOK
    <3>4. closeOnce = made
      BY <3>2, <3>3
    <3> QED BY <1>1, <2>1, <3>1, <3>4 DEF Orderly, OncesOK
  <2>6. ASSUME NEW q \in Procs PROVE BodyOK(q)'
    <3>1. BodyOK(q)
      BY <2>1 DEF Orderly
    <3>2. CASE q = p
      BY <1>0, <1>1, <1>2, <1>3, <2>5, <3>2 DEF TypeOK, BodyOK, Working
    <3>3. CASE q # p
      BY <1>0, <1>1, <1>2, <1>3, <3>1, <3>3 DEF TypeOK, PlacesOK, BodyOK, Working
    <3> QED BY <3>2, <3>3
  <2>7. OneBody'
    <3>1. \A q \in Procs : at[q] \in Working \union {"return"} => once[of[q]] = "running"
      BY <2>1 DEF Orderly, BodyOK
    <3>2. \A q \in Procs \ {p} : at'[q] = at[q] /\ of'[q] = of[q]
      BY <1>0, <1>1, <1>3 DEF TypeOK
    <3>3. of'[p] = closeOnce /\ (at'[p] \in Working \union {"return"} => once[closeOnce] = "new")
      BY <1>0, <1>1, <1>3 DEF TypeOK, Working
    <3> QED BY <2>1, <3>1, <3>2, <3>3 DEF Orderly, OneBody
  <2> QED BY <1>2, <2>1, <2>2, <2>3, <2>4, <2>6, <2>7 DEF Orderly
<1>7. ASSUME ~outside' PROVE Alone' /\ ~stray'
  <2>1. ~outside /\ p \notin Closers /\ Alone /\ ~stray
    BY <1>7 DEF Inv, Do
  <2>2. closeOnce = p /\ p \in Gens /\ once[p] = "new"
    BY <1>1, <2>1, OwnFields DEF Alone, Procs, Do, Calls
  <2>3. ~stray'
    BY <2>1, <2>2 DEF Do
  <2>4. Alone'
    BY <1>0, <1>1, <1>3, <2>1, <2>2 DEF TypeOK, Alone, Working, Befores, Procs
  <2> QED BY <2>3, <2>4
<1> QED  BY <1>4, <1>5, <1>6, <1>7 DEF Inv

LEMMA DoNilKeeps == ASSUME NEW p \in Procs, Inv, DoNil(p) PROVE Inv'
<1> USE RedialAssumption
<1>0. TypeOK /\ PlacesOK /\ stray'
  BY DEF Inv, DoNil
<1>1. UNCHANGED <<fields, objects, procVars, redialVars>>
  BY DEF DoNil
<1>2. TypeOK'
  BY <1>0, <1>1 DEF TypeOK, DoNil, fields, objects, procVars, redialVars
<1>3. PlacesOK'
  BY <1>0, <1>1 DEF PlacesOK, procVars
<1>4. outside'
  <2>1. SUFFICES ASSUME ~outside' PROVE FALSE
    OBVIOUS
  <2>2. ~outside /\ p \notin Closers /\ at[p] = "leave" /\ closeOnce = 0
    BY <2>1 DEF DoNil, Calls
  <2> QED BY <2>2, OwnFields DEF Gens
<1> QED  BY <1>0, <1>2, <1>3, <1>4 DEF Inv

LEMMA AwaitKeeps == ASSUME NEW p \in Procs, Inv, Await(p) PROVE Inv'
<1> USE RedialAssumption
<1>0. TypeOK /\ PlacesOK
  BY DEF Inv
<1>1. /\ at[p] = "await" /\ at' = [at EXCEPT ![p] = Returned(p)]
      /\ Returned(p) \in {"returned", "ended"}
      /\ p \in Closers => Returned(p) = "returned"
      /\ p \in Gens => Returned(p) = "ended"
  BY DEF Await, Goto, Returned, Gens, Refs
<1>2. UNCHANGED <<closeOnce, close, done, conn, once, closed, finished, sock, of, chan, redialer, dialed, made, outside, stray, panicked>>
  BY DEF Await, fields, objects, redialVars, historyVars
<1>3. TypeOK'
  BY <1>0, <1>1, <1>2 DEF TypeOK
<1>4. PlacesOK'
  BY <1>0, <1>1, <1>2 DEF TypeOK, PlacesOK, Procs, Befores, Working
<1>5. ASSUME ~stray' PROVE Orderly' /\ ~panicked'
  <2>1. Orderly /\ ~panicked
    BY <1>2, <1>5 DEF Inv
  <2>2. DialersOK'
    BY <1>2, <2>1, DialersStay DEF Orderly
  <2>3. LoopsOK'
    <3>1. \A g \in Gens : at'[g] = at[g] \/ (at[g] \notin Befores /\ at'[g] \notin Befores)
      BY <1>0, <1>1 DEF TypeOK, Procs, Befores
    <3> QED BY <1>2, <2>1, <3>1, <1>0, LoopsStay DEF Orderly
  <2>4. OncesOK'
    BY <1>2, <2>1 DEF Orderly, OncesOK, Resetting
  <2>5. \A q \in Procs : at'[q] = at[q] \/ at'[q] \notin Working \union {"return"}
    BY <1>0, <1>1 DEF TypeOK, Working
  <2>6. ASSUME NEW q \in Procs PROVE BodyOK(q)'
    BY <1>2, <2>1, <2>5 DEF Orderly, BodyOK, Working
  <2>7. OneBody'
    BY <1>2, <2>1, <2>5, OneBodyStays DEF Orderly
  <2> QED BY <1>2, <2>1, <2>2, <2>3, <2>4, <2>6, <2>7 DEF Orderly
<1>6. ASSUME ~outside' PROVE Alone' /\ ~stray'
  <2>1. Alone /\ ~stray
    BY <1>2, <1>6 DEF Inv
  <2> QED BY <1>0, <1>1, <1>2, <2>1 DEF TypeOK, Alone, Procs, Befores, Working
<1> QED  BY <1>3, <1>4, <1>5, <1>6 DEF Inv

LEMMA SignalKeeps == ASSUME NEW p \in Procs, Inv, ~panicked, Signal(p) PROVE Inv'
<1> USE RedialAssumption
<1>0. TypeOK /\ PlacesOK /\ at[p] = "signal"
  BY DEF Inv, Signal
<1>1. UNCHANGED <<closeOnce, close, done, conn, once, finished, sock, of, chan, redialer, dialed, made, outside>>
  BY DEF Signal, fields, redialVars
<1>2. \/ close \in {0} \union closed /\ panicked' = TRUE /\ closed' = closed /\ at' = at
      \/ /\ close \notin {0} \union closed /\ panicked' = panicked
         /\ closed' = closed \union {close} /\ at' = [at EXCEPT ![p] = "sync"]
  BY DEF Signal, Goto
<1>3. TypeOK'
  <2>1. stray' \in BOOLEAN
    BY DEF Signal
  <2>2. closed' \subseteq Gens
    <3>1. close # 0 => close \in Gens
      BY <1>0 DEF TypeOK, Refs, Gens
    <3> QED BY <1>0, <1>2, <3>1 DEF TypeOK
  <2> QED BY <1>0, <1>1, <1>2, <2>1, <2>2 DEF TypeOK, Working
<1>4. PlacesOK'
  BY <1>0, <1>1, <1>2 DEF TypeOK, PlacesOK, Procs, Befores, Working
<1>5. ASSUME ~stray' PROVE Orderly' /\ ~panicked'
  <2>1. ~stray /\ close = of[p]
    BY <1>5 DEF Signal
  <2>2. Orderly
    BY <2>1 DEF Inv
  <2>3. of[p] = made /\ of[p] \notin closed /\ once[of[p]] = "running" /\ of[p] \in Gens
    BY <1>0, <2>2 DEF Orderly, BodyOK, Working, PlacesOK
  <2>4. closed' = closed \union {made} /\ at' = [at EXCEPT ![p] = "sync"] /\ ~panicked'
    BY <1>2, <2>1, <2>3 DEF Gens
  <2>5. DialersOK'
    BY <1>1, <2>2, DialersStay DEF Orderly
  <2>6. LoopsOK'
    <3>1. \A g \in Gens : at'[g] = at[g] \/ (at[g] \notin Befores /\ at'[g] \notin Befores)
      BY <1>0, <2>4 DEF TypeOK, Procs, Befores
    <3> QED BY <1>1, <2>2, <3>1, <1>0, LoopsStay DEF Orderly
  <2>7. OncesOK'
    BY <1>0, <1>1, <2>2, <2>3, <2>4 DEF Orderly, OncesOK, Resetting, TypeOK
  <2>8. ASSUME NEW q \in Procs PROVE BodyOK(q)'
    <3>1. BodyOK(q) /\ (q # p => ~(at[q] = "signal" /\ of[q] = made))
       BY <1>0, <2>2, <2>3 DEF Orderly, OneBody, Working
    <3>2. CASE q = p
      BY <1>0, <1>1, <2>2, <2>3, <2>4, <3>1, <3>2 DEF BodyOK, Working, TypeOK
    <3>3. CASE q # p
      BY <1>0, <1>1, <2>3, <2>4, <3>1, <3>3 DEF BodyOK, Working, TypeOK
    <3> QED BY <3>2, <3>3
  <2>9. OneBody'
    BY <1>0, <1>1, <2>2, <2>4 DEF Orderly, OneBody, Working, TypeOK
  <2> QED BY <2>2, <2>4, <2>5, <2>6, <2>7, <2>8, <2>9 DEF Orderly
<1>6. ASSUME ~outside' PROVE Alone' /\ ~stray'
  <2>1. ~outside /\ Alone /\ ~stray
    BY <1>1, <1>6 DEF Inv
  <2>2. p \in Gens /\ close = of[p]
    BY <1>0, <2>1, OwnFields DEF Working
  <2>3. ~stray'
    BY <2>1, <2>2 DEF Signal
  <2>4. Alone'
    BY <1>0, <1>1, <1>2, <2>1, <2>2 DEF Alone, TypeOK, Working, Befores, Procs
  <2> QED BY <2>3, <2>4
<1> QED  BY <1>3, <1>4, <1>5, <1>6 DEF Inv

\* A step of the body of Close that stays in it: no other Close is in the body
\* that works on this incarnation.
LEMMA BodyStep ==
  ASSUME TypeOK, PlacesOK, NEW p \in Procs, NEW there \in Working,
         at[p] \in Working, at' = [at EXCEPT ![p] = there],
         UNCHANGED <<once, of, made, redialer, dialed, closeOnce, close>>
  PROVE  /\ Orderly /\ LoopsOK' /\ OncesOK' /\ BodyOK(p)' => Orderly'
         /\ Alone => Alone'
         /\ PlacesOK'
         /\ \A g \in Gens : at'[g] = at[g] \/ (at[g] \notin Befores /\ at'[g] \notin Befores)
<1> USE RedialAssumption
<1>1. /\ at'[p] = there
      /\ \A q \in Procs : q # p => at'[q] = at[q]
  BY DEF TypeOK
<1>2. ASSUME Orderly, LoopsOK', OncesOK', BodyOK(p)' PROVE Orderly'
  <2>1. DialersOK'
    BY <1>2, DialersStay DEF Orderly
  <2>2. ASSUME NEW q \in Procs, q # p PROVE BodyOK(q)'
    <3>1. BodyOK(p) /\ BodyOK(q) /\ of[p] = made
      BY <1>2 DEF Orderly, BodyOK
    <3>2. at[q] \notin Working
      BY <1>2, <2>2, <3>1 DEF Orderly, OneBody, BodyOK
    <3> QED BY <1>1, <2>2, <3>1, <3>2 DEF BodyOK, Working
  <2>3. OneBody'
    <3>1. \A q \in Procs : at'[q] \in Working \union {"return"} => at[q] \in Working \union {"return"} /\ of'[q] = of[q]
      BY <1>1
    <3> QED BY <1>2, <3>1, OneBodyStays DEF Orderly
  <2> QED BY <1>2, <2>1, <2>2, <2>3 DEF Orderly
<1>3. ASSUME Alone PROVE Alone'
  <2>1. there \notin Befores \union {"outside", "leave"} /\ at[p] \notin Befores \union {"outside", "leave"}
    BY DEF Working, Befores
  <2> QED BY <1>1, <1>3, <2>1 DEF Alone, Procs
<1>4. PlacesOK'
  BY <1>1 DEF PlacesOK, Procs, Befores, Working
<1>5. \A g \in Gens : at'[g] = at[g] \/ (at[g] \notin Befores /\ at'[g] \notin Befores)
  BY <1>1 DEF Procs, Befores, Working
<1> QED BY <1>2, <1>3, <1>4, <1>5

LEMMA SyncKeeps == ASSUME NEW p \in Procs, Inv, ~panicked, Sync(p) PROVE Inv'
<1> DEFINE there == IF done = 0 THEN "check" ELSE "wait"
<1>0. TypeOK /\ PlacesOK /\ at[p] = "sync" /\ at[p] \in Working /\ there \in Working
  BY DEF Inv, Sync, Working
<1>1. UNCHANGED <<closeOnce, close, done, conn, once, closed, finished, sock, of, redialer, dialed, made, outside, panicked>>
  BY DEF Sync, fields, objects, redialVars
<1>2. at' = [at EXCEPT ![p] = there] /\ chan' = [chan EXCEPT ![p] = done]
  BY DEF Sync, Goto
<1>3. TypeOK'
  <2>1. stray' \in BOOLEAN
    BY DEF Sync
  <2> HIDE DEF there
  <2> QED BY <1>0, <1>1, <1>2, <2>1 DEF TypeOK
<1>4. /\ Orderly /\ LoopsOK' /\ OncesOK' /\ BodyOK(p)' => Orderly'
      /\ Alone => Alone'
      /\ PlacesOK'
      /\ \A g \in Gens : at'[g] = at[g] \/ (at[g] \notin Befores /\ at'[g] \notin Befores)
  BY <1>0, <1>1, <1>2, BodyStep
<1>5. ASSUME ~stray' PROVE Orderly' /\ ~panicked'
  <2>1. ~stray /\ done = of[p] /\ Orderly
    BY <1>5 DEF Sync, Inv
  <2>2. LoopsOK'
    BY <1>0, <1>1, <1>4, <2>1, LoopsStay DEF Orderly
  <2>3. OncesOK'
    BY <1>1, <2>1 DEF Orderly, OncesOK, Resetting
  <2>4. of[p] = made /\ made # 0
    BY <1>0, <2>1, RedialAssumption DEF Orderly, BodyOK, PlacesOK, Gens
  <2>5. at'[p] = "wait" /\ chan'[p] = made
    BY <1>0, <1>2, <2>1, <2>4 DEF TypeOK
  <2>6. BodyOK(p)'
    BY <1>0, <1>1, <2>1, <2>4, <2>5 DEF Orderly, BodyOK, Working
  <2> QED BY <1>1, <1>4, <2>1, <2>2, <2>3, <2>6
<1>6. ASSUME ~outside' PROVE Alone' /\ ~stray'
  <2>1. ~outside /\ Alone /\ ~stray
    BY <1>1, <1>6 DEF Inv
  <2>2. done = of[p]
    BY <1>0, <2>1, OwnFields
  <2> QED BY <1>4, <2>1, <2>2 DEF Sync
<1> QED  BY <1>3, <1>4, <1>5, <1>6 DEF Inv

LEMMA WaitKeeps == ASSUME NEW p \in Procs, Inv, ~panicked, Wait(p) PROVE Inv'
<1>0. TypeOK /\ PlacesOK /\ at[p] = "wait" /\ at[p] \in Working /\ "check" \in Working
  BY DEF Inv, Wait, Working
<1>1. UNCHANGED <<closeOnce, close, done, conn, once, closed, finished, sock, of, chan, redialer, dialed, made, outside, stray, panicked>>
  BY DEF Wait, fields, objects, redialVars, historyVars
<1>2. at' = [at EXCEPT ![p] = "check"] /\ chan[p] \in finished
  BY DEF Wait, Goto
<1>3. TypeOK'
  BY <1>0, <1>1, <1>2 DEF TypeOK
<1>4. /\ Orderly /\ LoopsOK' /\ OncesOK' /\ BodyOK(p)' => Orderly'
      /\ Alone => Alone'
      /\ PlacesOK'
      /\ \A g \in Gens : at'[g] = at[g] \/ (at[g] \notin Befores /\ at'[g] \notin Befores)
  BY <1>0, <1>1, <1>2, BodyStep
<1>5. ASSUME ~stray' PROVE Orderly' /\ ~panicked'
  <2>1. Orderly /\ ~panicked
    BY <1>1, <1>5 DEF Inv
  <2>2. LoopsOK'
    BY <1>0, <1>1, <1>4, <2>1, LoopsStay DEF Orderly
  <2>3. OncesOK'
    BY <1>1, <2>1 DEF Orderly, OncesOK, Resetting
  <2>4. BodyOK(p) /\ done = made /\ made \in finished /\ made \in Gens
    BY <1>0, <1>2, <2>1 DEF Orderly, BodyOK, PlacesOK
  <2>5. conn = made
    <3>1. at[made] \notin Befores
      BY <2>1, <2>4 DEF Orderly, LoopsOK
    <3>2. ~Resetting(Resets)
      BY <2>1, <2>4, <3>1 DEF Orderly, LoopsOK, Befores
    <3> QED BY <1>0, <2>1, <2>4, <3>2 DEF Orderly, OncesOK, BodyOK
  <2>6. at'[p] = "check"
    BY <1>0, <1>2 DEF TypeOK
  <2>7. BodyOK(p)'
    BY <1>0, <1>1, <2>4, <2>5, <2>6 DEF BodyOK, Working
  <2> QED BY <1>1, <1>4, <2>1, <2>2, <2>3, <2>7
<1>6. ASSUME ~outside' PROVE Alone' /\ ~stray'
  BY <1>1, <1>4, <1>6 DEF Inv
<1> QED  BY <1>3, <1>4, <1>5, <1>6 DEF Inv

LEMMA CheckKeeps == ASSUME NEW p \in Procs, Inv, ~panicked, Check(p) PROVE Inv'
<1> DEFINE there == IF conn = 0 THEN "spawn" ELSE "hangUp"
<1>0. TypeOK /\ PlacesOK /\ at[p] = "check" /\ at[p] \in Working /\ there \in Working
  BY DEF Inv, Check, Working
<1>1. UNCHANGED <<closeOnce, close, done, conn, once, closed, finished, sock, of, chan, redialer, dialed, made, outside, stray, panicked>>
  BY DEF Check, fields, objects, redialVars, historyVars
<1>2. at' = [at EXCEPT ![p] = there]
  BY DEF Check, Goto
<1>3. TypeOK'
  <2> HIDE DEF there
  <2> QED BY <1>0, <1>1, <1>2 DEF TypeOK
<1>4. /\ Orderly /\ LoopsOK' /\ OncesOK' /\ BodyOK(p)' => Orderly'
      /\ Alone => Alone'
      /\ PlacesOK'
      /\ \A g \in Gens : at'[g] = at[g] \/ (at[g] \notin Befores /\ at'[g] \notin Befores)
  BY <1>0, <1>1, <1>2, BodyStep
<1>5. ASSUME ~stray' PROVE Orderly' /\ ~panicked'
  <2>1. Orderly /\ ~panicked
    BY <1>1, <1>5 DEF Inv
  <2>2. LoopsOK'
    BY <1>0, <1>1, <1>4, <2>1, LoopsStay DEF Orderly
  <2>3. OncesOK'
    BY <1>1, <2>1 DEF Orderly, OncesOK, Resetting
  <2>4. BodyOK(p) /\ made \in Gens
    BY <1>0, <2>1 DEF Orderly, BodyOK, PlacesOK
  <2>5. at'[p] = "hangUp"
    BY <1>0, <1>2, <2>4, RedialAssumption DEF TypeOK, BodyOK, Gens
  <2>6. BodyOK(p)'
    BY <1>0, <1>1, <2>4, <2>5 DEF BodyOK, Working
  <2> QED BY <1>1, <1>4, <2>1, <2>2, <2>3, <2>6
<1>6. ASSUME ~outside' PROVE Alone' /\ ~stray'
  BY <1>1, <1>4, <1>6 DEF Inv
<1> QED  BY <1>3, <1>4, <1>5, <1>6 DEF Inv

LEMMA HangUpKeeps == ASSUME NEW p \in Procs, Inv, ~panicked, HangUp(p) PROVE Inv'
<1>0. TypeOK /\ PlacesOK /\ at[p] = "hangUp" /\ at[p] \in Working /\ "forget" \in Working
  BY DEF Inv, HangUp, Working
<1>1. UNCHANGED <<closeOnce, close, done, conn, once, closed, finished, of, chan, redialer, dialed, made, outside, stray>>
  BY DEF HangUp, Panic, fields, objects, procVars, redialVars, historyVars
<1>2. CASE conn # 0
  <2>1. at' = [at EXCEPT ![p] = "forget"] /\ sock' = [sock EXCEPT ![conn] = "closed"] /\ panicked' = panicked
    BY <1>2 DEF HangUp, Goto
  <2>2. TypeOK'
    BY <1>0, <1>1, <2>1 DEF TypeOK
  <2>3. /\ Orderly /\ LoopsOK' /\ OncesOK' /\ BodyOK(p)' => Orderly'
        /\ Alone => Alone'
        /\ PlacesOK'
        /\ \A g \in Gens : at'[g] = at[g] \/ (at[g] \notin Befores /\ at'[g] \notin Befores)
    BY <1>0, <1>1, <2>1, BodyStep
  <2>4. ASSUME ~stray' PROVE Orderly' /\ ~panicked'
    <3>1. Orderly /\ ~panicked
      BY <1>1, <2>4 DEF Inv
    <3>2. LoopsOK'
      BY <1>0, <1>1, <2>3, <3>1, LoopsStay DEF Orderly
    <3>3. BodyOK(p) /\ made \in Gens /\ conn = made /\ of[p] = made /\ once[made] = "running"
      BY <1>0, <3>1 DEF Orderly, BodyOK, PlacesOK
    <3>4. at'[p] = "forget" /\ \A g \in Gens : sock'[g] = IF g = made THEN "closed" ELSE sock[g]
      BY <1>0, <2>1, <3>3 DEF TypeOK
    <3>5. OncesOK'
      <4>1. Resetting(Resets)' = Resetting(Resets)
        BY <1>1 DEF Resetting
      <4>2. \A g \in Gens : g > made => g # made
        BY <1>0 DEF TypeOK, Gens, Refs
      <4> QED BY <1>1, <3>1, <3>3, <3>4, <4>1, <4>2 DEF Orderly, OncesOK
    <3>6. BodyOK(p)'
      BY <1>0, <1>1, <3>3, <3>4 DEF BodyOK, Working
    <3> QED BY <2>1, <2>3, <3>1, <3>2, <3>5, <3>6
  <2>5. ASSUME ~outside' PROVE Alone' /\ ~stray'
    BY <1>1, <2>3, <2>5 DEF Inv
  <2> QED  BY <2>2, <2>3, <2>4, <2>5 DEF Inv
<1>3. CASE conn = 0
  <2>1. panicked' = TRUE /\ UNCHANGED <<at, sock>>
    BY <1>3 DEF HangUp, Panic, objects, procVars
  <2>2. TypeOK' /\ PlacesOK'
    BY <1>0, <1>1, <2>1 DEF TypeOK, PlacesOK
  <2>3. stray
    <3>1. SUFFICES ASSUME ~stray PROVE FALSE
      OBVIOUS
    <3>2. Orderly
      BY <3>1 DEF Inv
    <3>3. conn = made /\ made \in Gens
      BY <1>0, <3>2 DEF Orderly, BodyOK, PlacesOK
    <3> QED BY <1>3, <3>3, RedialAssumption DEF Gens
  <2> QED  BY <1>1, <2>2, <2>3 DEF Inv
<1> QED BY <1>2, <1>3

LEMMA ForgetKeeps == ASSUME NEW p \in Procs, Inv, ~panicked, Forget(p) PROVE Inv'
<1>0. TypeOK /\ PlacesOK /\ at[p] = "forget" /\ at[p] \in Working /\ "spawn" \in Working
  BY DEF Inv, Forget, Working
<1>1. UNCHANGED <<closeOnce, close, done, once, closed, finished, sock, of, chan, redialer, dialed, made, outside, stray, panicked>>
  BY DEF Forget, objects, redialVars, historyVars
<1>2. at' = [at EXCEPT ![p] = "spawn"] /\ conn' = 0
  BY DEF Forget, Goto
<1>3. TypeOK'
  <2>1. 0 \in Refs
    BY RedialAssumption DEF Refs
  <2> QED BY <1>0, <1>1, <1>2, <2>1 DEF TypeOK
<1>4. /\ Orderly /\ LoopsOK' /\ OncesOK' /\ BodyOK(p)' => Orderly'
      /\ Alone => Alone'
      /\ PlacesOK'
      /\ \A g \in Gens : at'[g] = at[g] \/ (at[g] \notin Befores /\ at'[g] \notin Befores)
  BY <1>0, <1>1, <1>2, BodyStep
<1>5. ASSUME ~stray' PROVE Orderly' /\ ~panicked'
  <2>1. Orderly /\ ~panicked
    BY <1>1, <1>5 DEF Inv
  <2>2. BodyOK(p) /\ made \in Gens /\ made \in finished /\ sock[made] = "closed"
    BY <1>0, <2>1 DEF Orderly, BodyOK, PlacesOK
  <2>3. LoopsOK'
    <3>1. \A g \in Gens : at[g] \notin {"start", "select", "selected", "exit"}
      BY <2>1, <2>2 DEF Orderly, LoopsOK, Befores
    <3>2. \A g \in Gens : at'[g] \in Befores <=> at[g] \in Befores
      BY <1>4
    <3>3. \A g \in Gens : /\ at'[g] = "none" <=> at[g] = "none"
                          /\ at'[g] \notin {"start", "select", "selected", "exit"}
      BY <1>4, <3>1, <3>2 DEF Befores
    <3> QED BY <1>1, <2>1, <2>2, <3>2, <3>3 DEF Orderly, LoopsOK, Resetting, Befores
  <2>4. OncesOK'
    BY <1>1, <2>1, <2>2 DEF Orderly, OncesOK, Resetting
  <2>5. at'[p] = "spawn"
    BY <1>0, <1>2 DEF TypeOK
  <2>6. BodyOK(p)'
    BY <1>0, <1>1, <2>2, <2>5 DEF BodyOK, Working
  <2> QED BY <1>1, <1>4, <2>1, <2>3, <2>4, <2>6
<1>6. ASSUME ~outside' PROVE Alone' /\ ~stray'
  BY <1>1, <1>4, <1>6 DEF Inv
<1> QED  BY <1>3, <1>4, <1>5, <1>6 DEF Inv

LEMMA SpawnKeeps == ASSUME NEW p \in Procs, Inv, ~panicked, Spawn(p) PROVE Inv'
<1> USE RedialAssumption
<1>0. TypeOK /\ PlacesOK /\ at[p] = "spawn" /\ of[p] \in Gens
  BY DEF Inv, Spawn, PlacesOK, Working
<1>1. UNCHANGED <<closeOnce, close, done, conn, once, closed, finished, sock, of, chan, dialed, made, outside, stray, panicked>>
  BY DEF Spawn, fields, objects, historyVars
<1>2. at' = [at EXCEPT ![p] = "return"] /\ redialer' = [redialer EXCEPT ![of[p]] = "dialing"]
  BY DEF Spawn, Goto, GotoR
<1>3. TypeOK'
  BY <1>0, <1>1, <1>2 DEF TypeOK
<1>4. at'[p] = "return" /\ \A q \in Procs : q # p => at'[q] = at[q]
  BY <1>0, <1>2 DEF TypeOK
<1>5. PlacesOK'
  BY <1>0, <1>1, <1>4 DEF PlacesOK, Procs, Befores, Working
<1>6. ASSUME ~stray' PROVE Orderly' /\ ~panicked'
  <2>1. Orderly /\ ~panicked
    BY <1>1, <1>6 DEF Inv
  <2>2. /\ of[p] = made /\ made \in finished /\ sock[made] = "closed" /\ once[made] = "running" /\ redialer[made] # "dialing"
        /\ done = made /\ made > 0 /\ made \in Int
    BY <1>0, <2>1 DEF Orderly, BodyOK, Working, Gens
  <2>3. /\ redialer'[made] = "dialing"
        /\ \A r \in Refs : r # made => redialer'[r] = redialer[r]
    BY <1>0, <1>2, <2>2 DEF TypeOK, Refs, Gens
  <2>4. ~Resetting(Resets) /\ redialer'[made - 1] = redialer[made - 1] /\ made - 1 \in Refs
    <3>1. made - 1 \in Refs /\ made - 1 # made
      BY <1>0, <2>2 DEF Refs, Gens
    <3>2. at[made] \notin {"none", "start"}
      BY <1>0, <2>1, <2>2 DEF Orderly, LoopsOK
    <3>3. ~Resetting(Resets)
      BY <1>0, <2>1, <2>2, <3>2 DEF Orderly, LoopsOK
    <3> QED BY <2>3, <3>1, <3>3
  <2>5. DialersOK'
    <3>1. closeOnce = made /\ close = made
      BY <2>1, <2>4 DEF Orderly, DialersOK, Resetting, Resets
    <3>2. \A r \in Refs : redialer'[r] \notin Resets
      BY <2>1, <2>2, <2>3, <2>4 DEF Orderly, DialersOK, Resetting, Resets
    <3>3. \A r \in Refs : redialer'[r] = "dialing" => r = made
      BY <2>1, <2>3 DEF Orderly, DialersOK
    <3>4. ~Resetting({"newOnce"})' /\ ~Resetting({"newOnce", "newClose"})'
      BY <1>1, <2>4, <3>2 DEF Resetting, Resets
    <3> QED BY <1>1, <3>1, <3>2, <3>3, <3>4 DEF DialersOK
  <2>6. Resetting(Resets)' = Resetting(Resets)
    BY <1>1, <2>4 DEF Resetting
  <2>7. LoopsOK'
    <3>1. \A g \in Gens : at'[g] = at[g] \/ (at[g] \notin Befores /\ at'[g] \notin Befores)
      BY <1>0, <1>4 DEF Procs, Befores
    <3>2. \A g \in Gens : at'[g] \in Befores <=> at[g] \in Befores
      BY <3>1
    <3>3. \A g \in Gens : /\ at'[g] = "none" <=> at[g] = "none"
                          /\ at'[g] \in {"start", "select", "selected", "exit"} <=> at[g] \in {"start", "select", "selected", "exit"}
                          /\ at'[g] \in {"none", "start"} <=> at[g] \in {"none", "start"}
      BY <3>1 DEF Befores
    <3> QED BY <1>0, <1>1, <2>1, <2>2, <2>6, <3>2, <3>3 DEF Orderly, LoopsOK
  <2>8. OncesOK'
    BY <1>1, <2>1, <2>2, <2>6 DEF Orderly, OncesOK
  <2>9. ASSUME NEW q \in Procs PROVE BodyOK(q)'
    <3>1. CASE q = p
      BY <1>0, <1>1, <1>4, <2>2, <3>1 DEF BodyOK, Working
    <3>2. CASE q # p
      <4>1. BodyOK(q) /\ at[q] \notin Working
        BY <1>0, <2>1, <2>2, <3>2 DEF Orderly, OneBody, BodyOK, Working
      <4> QED BY <1>1, <1>4, <3>2, <4>1 DEF BodyOK, Working
    <3> QED BY <3>1, <3>2
  <2>10. OneBody'
    <3>1. \A q \in Procs : at'[q] \in Working \union {"return"} => at[q] \in Working \union {"return"} /\ of'[q] = of[q]
      BY <1>0, <1>1, <1>4 DEF Working
    <3> QED BY <2>1, <3>1, OneBodyStays DEF Orderly
  <2> QED BY <1>1, <2>1, <2>5, <2>7, <2>8, <2>9, <2>10 DEF Orderly
<1>7. ASSUME ~outside' PROVE Alone' /\ ~stray'
  <2>1. Alone /\ ~stray
    BY <1>1, <1>7 DEF Inv
  <2> QED BY <1>0, <1>1, <1>4, <2>1 DEF Alone, Procs, Working, Befores
<1> QED  BY <1>3, <1>5, <1>6, <1>7 DEF Inv

LEMMA ReturnKeeps == ASSUME NEW p \in Procs, Inv, ~panicked, Return(p) PROVE Inv'
<1> USE RedialAssumption
<1>0. TypeOK /\ PlacesOK /\ at[p] = "return" /\ of[p] \in Gens
  BY DEF Inv, Return, PlacesOK
<1>1. UNCHANGED <<closeOnce, close, done, conn, closed, finished, sock, of, chan, redialer, dialed, made, outside, stray, panicked>>
  BY DEF Return, fields, redialVars, historyVars
<1>2. /\ at' = [at EXCEPT ![p] = Returned(p)] /\ once' = [once EXCEPT ![of[p]] = "done"]
      /\ Returned(p) \in {"returned", "ended"}
      /\ p \in Closers => Returned(p) = "returned"
      /\ p \in Gens => Returned(p) = "ended"
  BY DEF Return, Goto, Returned, Gens, Refs
<1>3. TypeOK'
  BY <1>0, <1>1, <1>2 DEF TypeOK
<1>4. at'[p] = Returned(p) /\ \A q \in Procs : q # p => at'[q] = at[q]
  BY <1>0, <1>2 DEF TypeOK
<1>5. PlacesOK'
  BY <1>0, <1>1, <1>2, <1>4 DEF PlacesOK, Procs, Befores, Working
<1>6. \A g \in Gens : once'[g] = IF g = of[p] THEN "done" ELSE once[g]
  BY <1>0, <1>2 DEF TypeOK
<1>7. ASSUME ~stray' PROVE Orderly' /\ ~panicked'
  <2>1. Orderly /\ ~panicked
    BY <1>1, <1>7 DEF Inv
  <2>2. DialersOK'
    BY <1>1, <2>1, DialersStay DEF Orderly
  <2>3. LoopsOK'
    <3>1. \A g \in Gens : at'[g] = at[g] \/ (at[g] \notin Befores /\ at'[g] \notin Befores)
      BY <1>0, <1>2, <1>4 DEF Procs, Befores
    <3> QED BY <1>0, <1>1, <2>1, <3>1, LoopsStay DEF Orderly
  <2>4. once[of[p]] = "running"
    BY <1>0, <2>1 DEF Orderly, BodyOK
  <2>5. OncesOK'
    <3>1. Resetting(Resets)' = Resetting(Resets)
      BY <1>1 DEF Resetting
    <3>2. \A g \in Gens : once'[g] = "new" <=> once[g] = "new"
      BY <1>6, <2>4
    <3> QED BY <1>1, <2>1, <3>1, <3>2 DEF Orderly, OncesOK
  <2>6. \A q \in Procs : at'[q] \in Working \union {"return"} => q # p /\ at'[q] = at[q]
    BY <1>2, <1>4 DEF Working
  <2>7. ASSUME NEW q \in Procs PROVE BodyOK(q)'
    <3>1. CASE at'[q] \in Working \union {"return"}
      <4>1. q # p /\ at'[q] = at[q] /\ of[q] # of[p] /\ of[q] \in Gens
        BY <1>0, <2>1, <2>6, <3>1 DEF Orderly, OneBody, PlacesOK
      <4>2. once'[of[q]] = once[of[q]] /\ BodyOK(q)
        BY <1>6, <2>1, <4>1 DEF Orderly
      <4> QED BY <1>1, <4>1, <4>2 DEF BodyOK
    <3>2. CASE at'[q] \notin Working \union {"return"}
      BY <3>2 DEF BodyOK, Working
    <3> QED BY <3>1, <3>2
  <2>8. OneBody'
    BY <1>1, <2>1, <2>6, OneBodyStays DEF Orderly
  <2> QED BY <1>1, <2>1, <2>2, <2>3, <2>5, <2>7, <2>8 DEF Orderly
<1>8. ASSUME ~outside' PROVE Alone' /\ ~stray'
  <2>1. Alone /\ ~stray /\ p \in Gens /\ of[p] = p
    BY <1>0, <1>1, <1>8 DEF Inv, Alone, Procs
  <2>2. \A g \in Gens : at'[g] \in Befores \union {"leave"} \union Working \union {"return"} => g # p /\ at'[g] = at[g]
    BY <1>2, <1>4 DEF Procs, Befores, Working
  <2>3. \A q \in Closers : q # p
    BY <2>1 DEF Gens, Refs
  <2>4. \A q \in Closers : at'[q] = "outside"
    BY <1>4, <2>1, <2>3 DEF Alone, Procs
  <2>5. \A g \in Gens : at'[g] \in Working \union {"return"} => of'[g] = g
    BY <1>1, <2>1, <2>2 DEF Alone
  <2>6. \A g \in Gens : at'[g] \in Befores \union {"leave"} => once'[g] = "new"
    BY <1>6, <2>1, <2>2 DEF Alone
  <2> QED BY <1>1, <2>1, <2>4, <2>5, <2>6 DEF Alone
<1> QED  BY <1>3, <1>5, <1>7, <1>8 DEF Inv

-----------------------------------------------------------------------------
(* onAfterClose.                                                           *)

LEMMA GiveUpKeeps == ASSUME NEW r \in Refs, Inv, ~panicked, GiveUp(r) PROVE Inv'
<1> USE RedialAssumption
<1>0. TypeOK /\ PlacesOK /\ redialer[r] = "dialing" /\ Redialretrys > 0
  BY DEF Inv, GiveUp
<1>1. UNCHANGED <<closeOnce, close, done, conn, once, closed, finished, sock, at, of, chan, dialed, made, outside, stray, panicked>>
  BY DEF GiveUp, fields, objects, procVars, historyVars
<1>2. redialer' = [redialer EXCEPT ![r] = "gaveUp"]
  BY DEF GiveUp, GotoR
<1>3. \A x \in Refs : redialer'[x] = IF x = r THEN "gaveUp" ELSE redialer[x]
  BY <1>0, <1>2 DEF TypeOK
<1>4. TypeOK'
  BY <1>0, <1>1, <1>2, <1>3 DEF TypeOK
<1>5. PlacesOK'
  BY <1>0, <1>1 DEF PlacesOK
<1>6. \A x \in Refs : /\ redialer'[x] \in Resets => redialer[x] = redialer'[x]
                      /\ redialer[x] \in Resets => redialer[x] = redialer'[x]
                      /\ redialer'[x] = "dialing" => redialer[x] = "dialing"
  BY <1>0, <1>3 DEF Resets
<1>7. ASSUME NEW S \in SUBSET Resets PROVE Resetting(S)' <=> Resetting(S)
  <2>1. made > 0 => made - 1 \in Refs
    BY <1>0 DEF TypeOK, Refs
  <2> QED BY <1>1, <1>6, <2>1 DEF Resetting
<1>8. /\ Resetting({"newOnce"})' <=> Resetting({"newOnce"})
      /\ Resetting({"newOnce", "newClose"})' <=> Resetting({"newOnce", "newClose"})
      /\ Resetting(Resets)' <=> Resetting(Resets)
  BY <1>7 DEF Resets
<1>9. ASSUME ~stray' PROVE Orderly' /\ ~panicked'
  <2>1. Orderly /\ ~panicked
    BY <1>1, <1>9 DEF Inv
  <2>2. DialersOK'
    BY <1>1, <1>6, <1>8, <2>1 DEF Orderly, DialersOK
  <2>3. LoopsOK'
    BY <1>1, <1>8, <2>1 DEF Orderly, LoopsOK
  <2>4. OncesOK'
    BY <1>1, <1>6, <1>8, <2>1 DEF Orderly, OncesOK, Gens, Refs
  <2>5. ASSUME NEW q \in Procs PROVE BodyOK(q)'
    <3>1. BodyOK(q) /\ made \in Refs
      BY <1>0, <2>1 DEF Orderly, TypeOK
    <3> QED BY <1>1, <1>6, <3>1 DEF BodyOK
  <2>6. OneBody'
    BY <1>1, <2>1, OneBodyStays DEF Orderly
  <2> QED BY <1>1, <2>1, <2>2, <2>3, <2>4, <2>5, <2>6 DEF Orderly
<1>10. ASSUME ~outside' PROVE Alone' /\ ~stray'
  BY <1>1, <1>10 DEF Inv, Alone
<1> QED  BY <1>4, <1>5, <1>9, <1>10 DEF Inv

LEMMA DialFKeeps == ASSUME NEW r \in Refs, Inv, ~panicked, DialF(r) PROVE Inv'
<1> USE RedialAssumption
<1>0. TypeOK /\ PlacesOK /\ redialer[r] = "dialing" /\ made < MaxConns
  BY DEF Inv, DialF
<1>1. UNCHANGED <<closeOnce, close, done, once, closed, finished, at, of, chan, outside, stray, panicked>>
  BY DEF DialF, procVars, historyVars
<1>2. /\ made' = made + 1 /\ conn' = 0 /\ dialed' = [dialed EXCEPT ![r] = made + 1]
      /\ sock' = [sock EXCEPT ![made + 1] = "open"] /\ redialer' = [redialer EXCEPT ![r] = "newOnce"]
  BY DEF DialF, GotoR
<1>3. made + 1 \in Gens /\ made + 1 \in Refs /\ 0 \in Refs /\ made \in Int /\ made >= 0
  BY <1>0 DEF TypeOK, Gens, Refs
<1>4. TypeOK'
  BY <1>0, <1>1, <1>2, <1>3 DEF TypeOK, Resets
<1>5. PlacesOK'
  BY <1>0, <1>1 DEF PlacesOK
<1>6. /\ \A x \in Refs : /\ redialer'[x] = IF x = r THEN "newOnce" ELSE redialer[x]
                         /\ dialed'[x] = IF x = r THEN made + 1 ELSE dialed[x]
      /\ \A g \in Gens : sock'[g] = IF g = made + 1 THEN "open" ELSE sock[g]
  BY <1>0, <1>2 DEF TypeOK
<1>7. ASSUME ~stray' PROVE Orderly' /\ ~panicked'
  <2>1. Orderly /\ ~panicked /\ r = made
    BY <1>0, <1>1, <1>7 DEF Inv, Orderly, DialersOK
  <2>2. \A q \in Procs : at[q] \notin Working
    BY <1>0, <2>1 DEF Orderly, BodyOK
  <2>3. ASSUME made \in Gens
        PROVE  once[made] # "new" /\ made \in finished /\ sock[made] = "closed" /\ at[made] \notin Befores
    BY <1>0, <2>1, <2>3 DEF Orderly, OncesOK, LoopsOK
  <2>4. made \in Gens \/ made = 0
    BY <1>3, <1>0 DEF Gens
  <2>5. ~Resetting(Resets)
    BY <2>1, <2>3, <2>4 DEF Orderly, LoopsOK, Resetting, Befores
  <2>6. closeOnce = made /\ close = made /\ \A x \in Refs : redialer[x] \notin Resets
    <3>1. closeOnce = made /\ close = made
      BY <2>1, <2>5 DEF Orderly, DialersOK, Resetting, Resets
    <3>2. ASSUME NEW x \in Refs, redialer[x] \in Resets PROVE FALSE
      <4>1. x = made - 1 /\ made > 0
        BY <2>1, <1>3, <3>2 DEF Orderly, DialersOK, Refs
      <4> QED BY <2>5, <3>2, <4>1 DEF Resetting
    <3> QED BY <3>1, <3>2
  <2>7. Resetting(Resets)' /\ Resetting({"newOnce"})' /\ Resetting({"newOnce", "newClose"})'
    BY <1>2, <1>3, <1>6, <2>1 DEF Resetting, Resets
  <2>8. DialersOK'
    <3>1. \A x \in Refs : redialer'[x] # "dialing"
      BY <1>6, <2>1 DEF Orderly, DialersOK
    <3>2. \A x \in Refs : redialer'[x] \in Resets => x = made' - 1 /\ dialed'[x] = made'
      BY <1>2, <1>3, <1>6, <2>1, <2>6
    <3> QED BY <1>1, <1>2, <1>3, <2>6, <2>7, <3>1, <3>2 DEF DialersOK
  <2>9. LoopsOK'
    <3>1. ASSUME NEW g \in Gens PROVE at[g] = "none" <=> g > made' \/ g = made'
      BY <1>2, <1>3, <2>1, <2>3, <2>5 DEF Orderly, LoopsOK, Gens, Befores
    <3>2. ASSUME NEW g \in Gens PROVE at[g] \notin {"start", "select", "selected", "exit"}
      BY <2>1, <2>3 DEF Orderly, LoopsOK, Befores
    <3>3. done <= made' /\ done # made' /\ at[made'] = "none"
      BY <1>0, <1>2, <1>3, <2>1, <3>1 DEF Orderly, LoopsOK, TypeOK, Refs
    <3> QED BY <1>1, <1>2, <2>1, <2>7, <3>1, <3>2, <3>3 DEF Orderly, LoopsOK
  <2>10. OncesOK'
    <3>1. ASSUME NEW g \in Gens, g < made' PROVE once[g] # "new" /\ sock'[g] = "closed"
      BY <1>2, <1>3, <1>6, <2>1, <2>3, <3>1 DEF Orderly, OncesOK, Gens
    <3>2. ASSUME NEW g \in Gens, g > made' PROVE once[g] = "new" /\ sock'[g] = "none"
      BY <1>2, <1>3, <1>6, <2>1, <3>2 DEF Orderly, OncesOK, Gens
    <3>3. ASSUME NEW g \in Gens, once[g] = "new" PROVE g \notin closed /\ sock'[g] # "closed"
      BY <1>6, <2>1, <3>3 DEF Orderly, OncesOK
    <3>4. redialer'[made'] # "dialing"
      BY <1>2, <1>3, <1>6, <2>1 DEF Orderly, DialersOK
    <3> QED BY <1>1, <2>7, <3>1, <3>2, <3>3, <3>4 DEF OncesOK
  <2>11. \A q \in Procs : BodyOK(q)'
    BY <1>1, <2>1, <2>2 DEF Orderly, BodyOK, Working
  <2>12. OneBody'
    BY <1>1, <2>1, OneBodyStays DEF Orderly
  <2> QED BY <1>1, <2>1, <2>8, <2>9, <2>10, <2>11, <2>12 DEF Orderly
<1>8. ASSUME ~outside' PROVE Alone' /\ ~stray'
  BY <1>1, <1>8 DEF Inv, Alone
<1> QED  BY <1>4, <1>5, <1>7, <1>8 DEF Inv

\* A step of reset, for the connection that has been made last.
LEMMA ResetStep ==
  ASSUME TypeOK, Orderly, NEW r \in Refs, redialer[r] \in {"newOnce", "newClose"},
         NEW next \in {"newClose", "setConn"}, redialer' = [redialer EXCEPT ![r] = next],
         UNCHANGED <<done, conn, once, closed, finished, sock, at, of, dialed, made, chan>>
  PROVE  /\ r = made - 1 /\ dialed[r] = made /\ made > 0
         /\ DialersOK' => Orderly'
         /\ redialer'[r] = next
         /\ \A x \in Refs \ {r} : redialer'[x] = redialer[x] /\ redialer[x] \notin Resets
<1> USE RedialAssumption
<1>1. r = made - 1 /\ dialed[r] = made /\ made > 0 /\ made \in Refs
  BY DEF Orderly, DialersOK, TypeOK, Refs, Resets
<1>2. redialer'[r] = next /\ \A x \in Refs \ {r} : redialer'[x] = redialer[x] /\ redialer[x] \notin Resets
  BY <1>1 DEF TypeOK, Orderly, DialersOK
<1>3. ASSUME DialersOK' PROVE Orderly'
  <2>1. Resetting(Resets)' = Resetting(Resets)
    BY <1>1, <1>2 DEF Resetting, Resets
  <2>2. redialer'[made] = redialer[made]
    BY <1>1, <1>2 DEF TypeOK, Refs
  <2>3. LoopsOK'
    BY <2>1 DEF Orderly, LoopsOK
  <2>4. OncesOK'
    BY <2>1, <2>2 DEF Orderly, OncesOK
  <2>5. \A q \in Procs : BodyOK(q)'
    BY <2>2 DEF Orderly, BodyOK
  <2>6. OneBody'
    BY OneBodyStays DEF Orderly
  <2> QED BY <1>3, <2>3, <2>4, <2>5, <2>6 DEF Orderly
<1> QED BY <1>1, <1>2, <1>3

LEMMA NewOnceKeeps == ASSUME NEW r \in Refs, Inv, ~panicked, NewOnce(r) PROVE Inv'
<1>0. TypeOK /\ PlacesOK /\ redialer[r] = "newOnce"
  BY DEF Inv, NewOnce
<1>1. UNCHANGED <<close, done, conn, once, closed, finished, sock, at, of, chan, dialed, made, outside, stray, panicked>>
  BY DEF NewOnce, objects, procVars, historyVars
<1>2. closeOnce' = dialed[r] /\ redialer' = [redialer EXCEPT ![r] = "newClose"]
  BY DEF NewOnce, GotoR
<1>3. TypeOK'
  BY <1>0, <1>1, <1>2 DEF TypeOK, Resets
<1>4. PlacesOK'
  BY <1>0, <1>1 DEF PlacesOK
<1>5. ASSUME ~stray' PROVE Orderly' /\ ~panicked'
  <2>1. Orderly /\ ~panicked
    BY <1>1, <1>5 DEF Inv
  <2>2. /\ r = made - 1 /\ dialed[r] = made /\ made > 0
        /\ DialersOK' => Orderly'
        /\ redialer'[r] = "newClose"
        /\ \A x \in Refs \ {r} : redialer'[x] = redialer[x] /\ redialer[x] \notin Resets
    BY <1>0, <1>1, <1>2, <2>1, ResetStep
  <2>3. close = made - 1
    BY <1>0, <2>1, <2>2 DEF Orderly, DialersOK, Resetting
  <2>4. DialersOK'
    BY <1>1, <1>2, <2>1, <2>2, <2>3 DEF Orderly, DialersOK, Resetting, Resets
  <2> QED BY <1>1, <2>1, <2>2, <2>4
<1>6. ASSUME ~outside' PROVE Alone' /\ ~stray'
  BY <1>1, <1>6 DEF Inv, Alone
<1> QED  BY <1>3, <1>4, <1>5, <1>6 DEF Inv

LEMMA NewCloseKeeps == ASSUME NEW r \in Refs, Inv, ~panicked, NewClose(r) PROVE Inv'
<1>0. TypeOK /\ PlacesOK /\ redialer[r] = "newClose"
  BY DEF Inv, NewClose
<1>1. UNCHANGED <<closeOnce, done, conn, once, closed, finished, sock, at, of, chan, dialed, made, outside, stray, panicked>>
  BY DEF NewClose, objects, procVars, historyVars
<1>2. close' = dialed[r] /\ redialer' = [redialer EXCEPT ![r] = "setConn"]
  BY DEF NewClose, GotoR
<1>3. TypeOK'
  BY <1>0, <1>1, <1>2 DEF TypeOK, Resets
<1>4. PlacesOK'
  BY <1>0, <1>1 DEF PlacesOK
<1>5. ASSUME ~stray' PROVE Orderly' /\ ~panicked'
  <2>1. Orderly /\ ~panicked
    BY <1>1, <1>5 DEF Inv
  <2>2. /\ r = made - 1 /\ dialed[r] = made /\ made > 0
        /\ DialersOK' => Orderly'
        /\ redialer'[r] = "setConn"
        /\ \A x \in Refs \ {r} : redialer'[x] = redialer[x] /\ redialer[x] \notin Resets
    BY <1>0, <1>1, <1>2, <2>1, ResetStep
  <2>3. closeOnce = made
    BY <1>0, <2>1, <2>2 DEF Orderly, DialersOK, Resetting
  <2>4. DialersOK'
    BY <1>1, <1>2, <2>1, <2>2, <2>3 DEF Orderly, DialersOK, Resetting, Resets
  <2> QED BY <1>1, <2>1, <2>2, <2>4
<1>6. ASSUME ~outside' PROVE Alone' /\ ~stray'
  BY <1>1, <1>6 DEF Inv, Alone
<1> QED  BY <1>3, <1>4, <1>5, <1>6 DEF Inv

LEMMA SetConnKeeps == ASSUME NEW r \in Refs, Inv, ~panicked, SetConn(r) PROVE Inv'
<1> USE RedialAssumption
<1>0. TypeOK /\ PlacesOK /\ redialer[r] = "setConn" /\ dialed[r] \in Refs
  BY DEF Inv, SetConn, TypeOK
<1>1. UNCHANGED <<closeOnce, close, done, once, closed, finished, sock, of, chan, dialed, made, outside, stray, panicked>>
  BY DEF SetConn, objects, historyVars
<1>2. conn' = dialed[r] /\ at' = [at EXCEPT ![dialed[r]] = "start"] /\ redialer' = [redialer EXCEPT ![r] = "finished"]
  BY DEF SetConn, Goto, GotoR
<1>3. TypeOK'
  BY <1>0, <1>1, <1>2 DEF TypeOK, Befores
<1>4. \A q \in Procs : at'[q] = IF q = dialed[r] THEN "start" ELSE at[q]
  BY <1>0, <1>2 DEF TypeOK
<1>5. PlacesOK'
  <2>1. \A q \in Closers : q # dialed[r]
    BY <1>0
  <2> QED BY <1>0, <1>1, <1>4, <2>1 DEF PlacesOK, Procs, Working
<1>6. \A x \in Refs : redialer'[x] = IF x = r THEN "finished" ELSE redialer[x]
  BY <1>0, <1>2 DEF TypeOK
<1>7. ASSUME ~stray' PROVE Orderly' /\ ~panicked'
  <2>1. Orderly /\ ~panicked
    BY <1>1, <1>7 DEF Inv
  <2>2. r = made - 1 /\ dialed[r] = made /\ made > 0 /\ made \in Gens /\ made \in Procs
    BY <1>0, <2>1 DEF Orderly, DialersOK, TypeOK, Refs, Resets, Gens, Procs
  <2>3. closeOnce = made /\ close = made
    BY <1>0, <2>1, <2>2 DEF Orderly, DialersOK, Resetting
  <2>4. Resetting(Resets) /\ at[made] = "none" /\ made \notin finished
    BY <1>0, <2>1, <2>2 DEF Orderly, LoopsOK, Resetting, Resets, Befores
  <2>5. ~Resetting(Resets)' /\ ~Resetting({"newOnce"})' /\ ~Resetting({"newOnce", "newClose"})'
    BY <1>1, <1>6, <2>2 DEF Resetting, Resets
  <2>6. DialersOK'
    <3>1. \A x \in Refs : redialer'[x] \notin Resets
      BY <1>6, <2>1, <2>2 DEF Orderly, DialersOK, Resets
    <3>2. \A x \in Refs : redialer'[x] = "dialing" => x = made
      BY <1>6, <2>1 DEF Orderly, DialersOK
    <3> QED BY <1>1, <2>3, <2>5, <3>1, <3>2 DEF DialersOK
  <2>7. at'[made] = "start" /\ \A q \in Procs : q # made => at'[q] = at[q]
    BY <1>4, <2>2
  <2>8. LoopsOK'
    <3>1. done' <= made' /\ done' # made'
      BY <1>1, <2>1, <2>2, <2>4 DEF Orderly, LoopsOK
    <3>2. ASSUME NEW g \in Gens
          PROVE  /\ at'[g] = "none" <=> g > made' \/ (g = made' /\ Resetting(Resets)')
                 /\ at'[g] \in {"start", "select", "selected", "exit"} => g = made' /\ conn' = g
                 /\ at'[g] \in Befores <=> g \notin finished'
      <4>1. CASE g = made
        <5>1. at'[g] = "start" /\ g \notin finished' /\ conn' = g /\ g = made'
          BY <1>1, <1>2, <2>2, <2>4, <2>7, <4>1
        <5>2. ~(g > made')
          BY <2>2, <4>1, <5>1 DEF Gens
        <5> QED BY <2>5, <5>1, <5>2 DEF Befores
      <4>2. CASE g # made
        BY <1>1, <2>1, <2>7, <4>2 DEF Orderly, LoopsOK, Procs
      <4> QED BY <4>1, <4>2
    <3> QED BY <1>1, <2>7, <3>1, <3>2 DEF LoopsOK
  <2>9. OncesOK'
    <3>1. conn' = made /\ redialer'[made] = redialer[made]
      BY <1>0, <1>2, <1>6, <2>2 DEF TypeOK, Refs
    <3> QED BY <1>1, <2>1, <3>1 DEF Orderly, OncesOK
  <2>10. ASSUME NEW q \in Procs PROVE BodyOK(q)'
    <3>1. CASE q = made
      BY <2>7, <3>1 DEF BodyOK, Working
    <3>2. CASE q # made
      <4>1. at'[q] = at[q] /\ BodyOK(q) /\ redialer'[made] = redialer[made]
        <5>1. made \in Refs /\ made # r
          BY <1>0, <2>2 DEF TypeOK, Refs
        <5> QED BY <1>6, <2>1, <2>7, <3>2, <5>1 DEF Orderly
      <4> QED BY <1>1, <1>2, <2>2, <4>1 DEF BodyOK
    <3> QED BY <3>1, <3>2
  <2>11. OneBody'
    <3>1. \A q \in Procs : at'[q] \in Working \union {"return"} => at[q] \in Working \union {"return"} /\ of'[q] = of[q]
      BY <1>1, <2>7 DEF Working
    <3> QED BY <2>1, <3>1, OneBodyStays DEF Orderly
  <2> QED BY <1>1, <2>1, <2>6, <2>8, <2>9, <2>10, <2>11 DEF Orderly
<1>8. ASSUME ~outside' PROVE Alone' /\ ~stray'
  <2>1. Alone /\ ~stray /\ Orderly
    BY <1>1, <1>8 DEF Inv
  <2>2. dialed[r] = made /\ made \in Gens /\ at[made] = "none"
    <3>1. r = made - 1 /\ dialed[r] = made /\ made \in Refs /\ made > 0
      BY <1>0, <2>1 DEF Orderly, DialersOK, TypeOK, Refs, Resets
    <3>2. made \in Gens /\ Resetting(Resets)
      BY <1>0, <3>1 DEF Refs, Gens, Resetting, Resets
    <3> QED BY <2>1, <3>1, <3>2 DEF Orderly, LoopsOK
  <2>3. once[made] = "new"
    BY <2>1, <2>2 DEF Alone, Befores
  <2>4. \A q \in Closers : q # dialed[r]
    BY <1>0
  <2> QED BY <1>1, <1>4, <2>1, <2>2, <2>3, <2>4 DEF Alone, Procs, Working
<1> QED  BY <1>3, <1>5, <1>7, <1>8 DEF Inv

-----------------------------------------------------------------------------
(* flushLoop, and the peer.                                                *)

\* A flushLoop that is at work works on the connection made last.
LEMMA AtWork ==
  ASSUME Orderly, NEW g \in Gens, at[g] \in {"start", "select", "selected", "exit"}
  PROVE  g = made /\ conn = g /\ g \notin finished /\ (at[g] # "start" => done = g)
BY DEF Orderly, LoopsOK, Befores, Gens

\* A step of flushLoop that leaves c.done alone and does not come to Close.
LEMMA LoopStep ==
  ASSUME Inv, NEW g \in Gens, NEW there \in {"select", "selected", "exit"},
         at[g] \in {"select", "selected"}, at' = [at EXCEPT ![g] = there],
         \A q \in Procs : q # g => chan'[q] = chan[q], chan' \in [Procs -> Refs],
         UNCHANGED <<closeOnce, close, done, conn, once, closed, finished, sock, of, redialer, dialed, made, outside, stray, panicked>>
  PROVE  Inv'
<1> USE RedialAssumption
<1>0. TypeOK /\ PlacesOK /\ g \in Procs
  BY DEF Inv, Procs
<1>1. TypeOK'
  BY <1>0 DEF TypeOK, Befores
<1>2. /\ at'[g] = there
      /\ \A q \in Procs : q # g => at'[q] = at[q]
  BY <1>0 DEF TypeOK
<1>3. PlacesOK'
  BY <1>0, <1>2 DEF PlacesOK, Procs, Befores, Working, Gens, Refs
<1>4. there \in Befores /\ there \notin Working \union {"none", "start", "return", "leave"} /\ at[g] \in Befores
  BY DEF Befores, Working
<1>5. ASSUME ~stray' PROVE Orderly' /\ ~panicked'
  <2>1. Orderly /\ ~panicked
    BY <1>5 DEF Inv
  <2>2. g = made /\ conn = g /\ g \notin finished /\ done = g
    BY <2>1, AtWork
  <2>3. DialersOK'
    BY <2>1, DialersStay DEF Orderly
  <2>4. LoopsOK'
    <3>1. ASSUME NEW h \in Gens
          PROVE  /\ at'[h] = "none" <=> at[h] = "none"
                 /\ at'[h] \in {"start", "select", "selected", "exit"} => at[h] \in {"start", "select", "selected", "exit"}
                 /\ at'[h] \in Befores <=> at[h] \in Befores
      BY <1>2, <1>4 DEF Procs
    <3>2. at'[made] \notin {"none", "start"} /\ done = made
      BY <1>2, <1>4, <2>2
    <3> QED BY <2>1, <3>1, <3>2 DEF Orderly, LoopsOK, Resetting
  <2>5. OncesOK'
    BY <2>1 DEF Orderly, OncesOK, Resetting
  <2>6. ASSUME NEW q \in Procs PROVE BodyOK(q)'
    BY <1>2, <1>4, <2>1 DEF Orderly, BodyOK, Working
  <2>7. OneBody'
    BY <1>2, <1>4, <2>1, OneBodyStays DEF Orderly
  <2> QED BY <2>1, <2>3, <2>4, <2>5, <2>6, <2>7 DEF Orderly
<1>6. ASSUME ~outside' PROVE Alone' /\ ~stray'
  <2>1. Alone /\ ~stray
    BY <1>6 DEF Inv
  <2>2. \A q \in Closers : q # g
    BY DEF Gens, Refs
  <2> QED BY <1>2, <1>4, <2>1, <2>2 DEF Alone, Procs
<1> QED  BY <1>1, <1>3, <1>5, <1>6 DEF Inv

LEMMA StartKeeps == ASSUME NEW g \in Gens, Inv, ~panicked, Start(g) PROVE Inv'
<1> USE RedialAssumption
<1>0. TypeOK /\ PlacesOK /\ g \in Procs /\ g \in Refs /\ at[g] = "start"
  BY DEF Inv, Procs, Start, Gens, Refs
<1>1. UNCHANGED <<closeOnce, close, conn, once, closed, finished, sock, of, chan, redialer, dialed, made, outside, stray, panicked>>
  BY DEF Start, objects, redialVars, historyVars
<1>2. done' = g /\ at' = [at EXCEPT ![g] = "select"]
  BY DEF Start, Goto
<1>3. TypeOK'
  BY <1>0, <1>1, <1>2 DEF TypeOK, Befores
<1>4. /\ at'[g] = "select"
      /\ \A q \in Procs : q # g => at'[q] = at[q]
  BY <1>0, <1>2 DEF TypeOK
<1>5. PlacesOK'
  <2>1. \A q \in Closers : q # g
    BY DEF Gens, Refs
  <2> QED BY <1>0, <1>1, <1>4, <2>1 DEF PlacesOK, Procs, Working
<1>6. ASSUME ~stray' PROVE Orderly' /\ ~panicked'
  <2>1. Orderly /\ ~panicked
    BY <1>1, <1>6 DEF Inv
  <2>2. g = made /\ conn = g /\ g \notin finished
    BY <1>0, <2>1, AtWork
  <2>3. DialersOK'
    BY <1>1, <2>1, DialersStay DEF Orderly
  <2>4. LoopsOK'
    <3>1. ASSUME NEW h \in Gens
          PROVE  /\ at'[h] = "none" <=> at[h] = "none"
                 /\ at'[h] \in {"start", "select", "selected", "exit"} => at[h] \in {"start", "select", "selected", "exit"}
                 /\ at'[h] \in Befores <=> at[h] \in Befores
      BY <1>0, <1>4 DEF Procs, Befores
    <3>2. at'[made] \notin {"none", "start"} /\ done' = made /\ done' <= made
      BY <1>2, <1>4, <2>2 DEF Gens
    <3> QED BY <1>1, <2>1, <3>1, <3>2 DEF Orderly, LoopsOK, Resetting
  <2>5. OncesOK'
    BY <1>1, <2>1 DEF Orderly, OncesOK, Resetting
  <2>6. ASSUME NEW q \in Procs PROVE BodyOK(q)'
    <3>1. BodyOK(q) /\ made \notin finished
      BY <2>1, <2>2 DEF Orderly
    <3> QED BY <1>1, <1>2, <1>4, <2>2, <3>1 DEF BodyOK, Working
  <2>7. OneBody'
    <3>1. \A q \in Procs : at'[q] \in Working \union {"return"} => at[q] \in Working \union {"return"} /\ of'[q] = of[q]
      BY <1>1, <1>4 DEF Working
    <3> QED BY <2>1, <3>1, OneBodyStays DEF Orderly
  <2> QED BY <1>1, <2>1, <2>3, <2>4, <2>5, <2>6, <2>7 DEF Orderly
<1>7. ASSUME ~outside' PROVE Alone' /\ ~stray'
  <2>1. Alone /\ ~stray /\ once[g] = "new"
    BY <1>0, <1>1, <1>7 DEF Inv, Alone, Befores
  <2>2. \A q \in Closers : q # g
    BY DEF Gens, Refs
  <2> QED BY <1>1, <1>4, <2>1, <2>2 DEF Alone, Procs, Working
<1> QED  BY <1>3, <1>5, <1>6, <1>7 DEF Inv

LEMMA SelectKeeps == ASSUME NEW g \in Gens, Inv, ~panicked, Select(g) PROVE Inv'
<1>1. /\ UNCHANGED <<closeOnce, close, done, conn, once, closed, finished, sock, of, redialer, dialed, made, outside, stray, panicked>>
      /\ at[g] = "select" /\ at' = [at EXCEPT ![g] = "selected"] /\ chan' = [chan EXCEPT ![g] = close]
  BY DEF Select, Goto, fields, objects, redialVars, historyVars
<1>2. chan' \in [Procs -> Refs] /\ \A q \in Procs : q # g => chan'[q] = chan[q]
  BY <1>1 DEF Inv, TypeOK
<1> QED BY <1>1, <1>2, LoopStep

\* A select that has been entered: its case meets no nil connection.
LEMMA Chosen ==
  ASSUME NEW g \in Gens, Inv, ~panicked, at[g] = "selected", NEW there \in {"select", "exit"},
         \/ at' = [at EXCEPT ![g] = there] /\ UNCHANGED panicked
         \/ conn = 0 /\ panicked' = TRUE /\ UNCHANGED at,
         UNCHANGED <<fields, objects, of, chan, redialVars, historyVars>>
  PROVE  Inv'
<1>1. UNCHANGED <<closeOnce, close, done, conn, once, closed, finished, sock, of, chan, redialer, dialed, made, outside, stray>>
  BY DEF fields, objects, redialVars, historyVars
<1>2. CASE at' = [at EXCEPT ![g] = there] /\ UNCHANGED panicked
  <2>1. chan' \in [Procs -> Refs] /\ \A q \in Procs : q # g => chan'[q] = chan[q]
    BY <1>1 DEF Inv, TypeOK
  <2> QED BY <1>1, <1>2, <2>1, LoopStep
<1>3. CASE conn = 0 /\ panicked' = TRUE /\ UNCHANGED at
  <2>1. stray
    <3>1. SUFFICES ASSUME ~stray PROVE FALSE
      OBVIOUS
    <3>2. conn = g
      BY <3>1, AtWork DEF Inv
    <3> QED BY <1>3, <3>2, RedialAssumption DEF Gens
  <2>2. TypeOK' /\ PlacesOK'
    BY <1>1, <1>3 DEF Inv, TypeOK, PlacesOK
  <2>3. outside
    BY <2>1 DEF Inv
  <2> QED BY <1>1, <2>1, <2>2, <2>3 DEF Inv
<1> QED BY <1>2, <1>3

LEMMA SignalledKeeps == ASSUME NEW g \in Gens, Inv, ~panicked, Signalled(g) PROVE Inv'
<1>1. /\ at[g] = "selected"
      /\ \/ at' = [at EXCEPT ![g] = "exit"] /\ UNCHANGED panicked
         \/ conn = 0 /\ panicked' = TRUE /\ UNCHANGED at
      /\ UNCHANGED <<fields, objects, of, chan, redialVars, historyVars>>
  BY DEF Signalled, Goto
<1> QED BY <1>1, Chosen

LEMMA FlushKeeps == ASSUME NEW g \in Gens, Inv, ~panicked, Flush(g) PROVE Inv'
<1>1. /\ at[g] = "selected"
      /\ UNCHANGED <<fields, objects, of, chan, redialVars, historyVars>>
  BY DEF Flush
<1>2. \/ at' = [at EXCEPT ![g] = "select"] /\ UNCHANGED panicked
      \/ at' = [at EXCEPT ![g] = "exit"] /\ UNCHANGED panicked
      \/ conn = 0 /\ panicked' = TRUE /\ UNCHANGED at
  BY DEF Flush, Goto
<1>3. CASE at' = [at EXCEPT ![g] = "select"] /\ UNCHANGED panicked
  BY <1>1, <1>3, Chosen
<1>4. CASE at' = [at EXCEPT ![g] = "exit"] /\ UNCHANGED panicked
  BY <1>1, <1>4, Chosen
<1>5. CASE conn = 0 /\ panicked' = TRUE /\ UNCHANGED at
  BY <1>1, <1>5, Chosen
<1> QED BY <1>2, <1>3, <1>4, <1>5

LEMMA ExitKeeps == ASSUME NEW g \in Gens, Inv, ~panicked, Exit(g) PROVE Inv'
<1> USE RedialAssumption
<1>0. TypeOK /\ PlacesOK /\ g \in Procs /\ at[g] = "exit"
  BY DEF Inv, Procs, Exit
<1>1. UNCHANGED <<closeOnce, close, done, conn, once, closed, sock, of, chan, redialer, dialed, made, outside, stray>>
  BY DEF Exit, Panic, fields, objects, procVars, redialVars, historyVars
<1>2. \/ done \in finished /\ panicked' = TRUE /\ finished' = finished /\ at' = at
      \/ done \notin finished /\ panicked' = panicked /\ finished' = finished \union {done} /\ at' = [at EXCEPT ![g] = "leave"]
  BY DEF Exit, Panic, Goto, objects, procVars
<1>3. TypeOK'
  BY <1>0, <1>1, <1>2 DEF TypeOK
<1>4. /\ at'[g] \in {"exit", "leave"}
      /\ \A q \in Procs : q # g => at'[q] = at[q]
  BY <1>0, <1>2 DEF TypeOK
<1>5. \A q \in Closers : q # g
  BY DEF Gens, Refs
<1>6. PlacesOK'
  BY <1>0, <1>1, <1>4, <1>5 DEF PlacesOK, Procs, Working
<1>7. ASSUME ~stray' PROVE Orderly' /\ ~panicked'
  <2>1. Orderly /\ ~panicked
    BY <1>1, <1>7 DEF Inv
  <2>2. g = made /\ conn = g /\ g \notin finished /\ done = g
    BY <1>0, <2>1, AtWork
  <2>3. at' = [at EXCEPT ![g] = "leave"] /\ finished' = finished \union {g} /\ ~panicked'
    BY <1>2, <2>1, <2>2
  <2>4. at'[g] = "leave"
    BY <1>0, <2>3 DEF TypeOK
  <2>5. DialersOK'
    BY <1>1, <2>1, DialersStay DEF Orderly
  <2>6. LoopsOK'
    <3>1. ASSUME NEW h \in Gens
          PROVE  /\ at'[h] = "none" <=> at[h] = "none"
                 /\ at'[h] \in {"start", "select", "selected", "exit"} => at[h] \in {"start", "select", "selected", "exit"}
                 /\ at'[h] \in Befores <=> at[h] \in Befores /\ h # g
      BY <1>0, <1>4, <2>4 DEF Procs, Befores
    <3>2. at'[made] \notin {"none", "start"} /\ done' = made
      BY <1>1, <2>2, <2>4
    <3> QED BY <1>1, <2>1, <2>3, <3>1, <3>2 DEF Orderly, LoopsOK, Resetting
  <2>7. OncesOK'
    BY <1>1, <2>1, <2>3 DEF Orderly, OncesOK, Resetting
  <2>8. ASSUME NEW q \in Procs PROVE BodyOK(q)'
    BY <1>1, <1>4, <2>1, <2>3, <2>4 DEF Orderly, BodyOK, Working
  <2>9. OneBody'
    <3>1. \A q \in Procs : at'[q] \in Working \union {"return"} => at[q] \in Working \union {"return"} /\ of'[q] = of[q]
      BY <1>1, <1>4 DEF Working
    <3> QED BY <2>1, <3>1, OneBodyStays DEF Orderly
  <2> QED BY <2>1, <2>3, <2>5, <2>6, <2>7, <2>8, <2>9 DEF Orderly
<1>8. ASSUME ~outside' PROVE Alone' /\ ~stray'
  <2>1. Alone /\ ~stray /\ once[g] = "new"
    BY <1>0, <1>1, <1>8 DEF Inv, Alone, Befores
  <2> QED BY <1>1, <1>4, <1>5, <2>1 DEF Alone, Procs, Working
<1> QED  BY <1>3, <1>6, <1>7, <1>8 DEF Inv

LEMMA BreakKeeps == ASSUME Inv, ~panicked, Break PROVE Inv'
<1>0. TypeOK /\ PlacesOK
  BY DEF Inv
<1>1. UNCHANGED <<closeOnce, close, done, conn, once, closed, finished, at, of, chan, redialer, dialed, made, outside, stray, panicked>>
  BY DEF Break, fields, procVars, redialVars, historyVars
<1>2. conn # 0 /\ sock[conn] = "open" /\ sock' = [sock EXCEPT ![conn] = "broken"]
  BY DEF Break
<1>3. TypeOK' /\ PlacesOK'
  BY <1>0, <1>1, <1>2 DEF TypeOK, PlacesOK
<1>4. conn \in Gens /\ \A g \in Gens : sock'[g] = IF g = conn THEN "broken" ELSE sock[g]
  BY <1>0, <1>2, RedialAssumption DEF TypeOK, Refs, Gens
<1>5. ASSUME ~stray' PROVE Orderly' /\ ~panicked'
  <2>1. Orderly /\ ~panicked
    BY <1>1, <1>5 DEF Inv
  <2>2. \A g \in Gens : /\ sock'[g] = "closed" <=> sock[g] = "closed"
                        /\ sock'[g] = "none" <=> sock[g] = "none"
    BY <1>2, <1>4
  <2>3. DialersOK'
    BY <1>1, <2>1, DialersStay DEF Orderly
  <2>4. LoopsOK'
    BY <1>1, <2>1 DEF Orderly, LoopsOK, Resetting
  <2>5. OncesOK'
    BY <1>1, <2>1, <2>2 DEF Orderly, OncesOK, Resetting
  <2>6. ASSUME NEW q \in Procs PROVE BodyOK(q)'
    <3>1. BodyOK(q) /\ (at[q] \in Working => made \in Gens)
      BY <1>0, <2>1 DEF Orderly, BodyOK, PlacesOK
    <3> QED BY <1>1, <2>2, <3>1 DEF BodyOK, Working
  <2>7. OneBody'
    BY <1>1, <2>1, OneBodyStays DEF Orderly
  <2> QED BY <1>1, <2>1, <2>3, <2>4, <2>5, <2>6, <2>7 DEF Orderly
<1>6. ASSUME ~outside' PROVE Alone' /\ ~stray'
  BY <1>1, <1>6 DEF Inv, Alone
<1> QED  BY <1>3, <1>5, <1>6 DEF Inv

-----------------------------------------------------------------------------
(* The specification keeps the invariant.                                  *)

LEMMA InitInv == Init => Inv
<1> USE RedialAssumption
<1> SUFFICES ASSUME Init PROVE Inv
  OBVIOUS
<1>0. 0 \in Refs /\ 1 \in Refs /\ 1 \in Gens /\ \A g \in Gens : g \notin Closers
  BY DEF Refs, Gens
<1>1. TypeOK
  <2>1. /\ done \in Refs /\ closed \subseteq Gens /\ finished \subseteq Refs
        /\ once \in [Gens -> {"new", "running", "done"}]
        /\ of \in [Procs -> Refs] /\ chan \in [Procs -> Refs] /\ dialed \in [Refs -> Refs]
        /\ outside \in BOOLEAN /\ stray \in BOOLEAN /\ panicked \in BOOLEAN
    BY <1>0 DEF Init
  <2>2. CASE Dialed
    BY <1>0, <2>1, <2>2 DEF Dialed, TypeOK, Befores, Resets
  <2>3. CASE Undialed
    BY <1>0, <2>1, <2>3 DEF Undialed, TypeOK, Befores, Resets
  <2> QED BY <2>2, <2>3 DEF Init
<1>2. \A p \in Procs : at[p] \notin Working \union {"await", "return"}
  BY DEF Init, Dialed, Undialed, Working
<1>3. PlacesOK
  <2>1. \A p \in Closers : at[p] = "outside"
    BY <1>0 DEF Init, Dialed, Undialed, Procs
  <2>2. \A g \in Gens : at[g] \notin {"outside", "returned"}
    BY <1>0 DEF Init, Dialed, Undialed, Procs
  <2> QED BY <1>2, <2>1, <2>2 DEF PlacesOK, Befores
<1>4. DialersOK /\ ~Resetting(Resets)
  BY <1>0 DEF Init, Dialed, Undialed, DialersOK, Resetting, Resets
<1>5. LoopsOK
  <2>1. done = 0 /\ made \in {0, 1} /\ finished = {} /\ conn = made
    BY DEF Init, Dialed, Undialed
  <2>2. \A g \in Gens : at[g] = IF g = made THEN "start" ELSE "none"
    BY <1>0 DEF Init, Dialed, Undialed, Procs, Gens
  <2> QED BY <1>0, <1>4, <2>1, <2>2 DEF LoopsOK, Befores, Gens
<1>6. OncesOK
  BY <1>0 DEF Init, Dialed, Undialed, OncesOK, Gens
<1>7. (\A p \in Procs : BodyOK(p)) /\ OneBody
  BY <1>2 DEF BodyOK, OneBody, Working
<1>8. Alone
  BY <1>0, <1>2 DEF Init, Dialed, Undialed, Alone, Procs
<1> QED BY <1>1, <1>3, <1>4, <1>5, <1>6, <1>7, <1>8 DEF Inv, Orderly, Init

LEMMA NextInv == Inv /\ [Next]_vars => Inv'
<1> SUFFICES ASSUME Inv, [Next]_vars PROVE Inv'
  OBVIOUS
<1>1. CASE UNCHANGED vars
  BY <1>1 DEF vars, fields, objects, procVars, redialVars, historyVars, Inv, TypeOK, PlacesOK, Orderly,
     DialersOK, LoopsOK, OncesOK, BodyOK, OneBody, Alone, Resetting
<1>2. CASE Next
  <2>1. ~panicked
    BY <1>2 DEF Next
  <2>2. ASSUME NEW p \in Procs, Close(p) PROVE Inv'
    BY <2>1, <2>2, DoKeeps, DoNilKeeps, AwaitKeeps, SignalKeeps, SyncKeeps, WaitKeeps, CheckKeeps,
       HangUpKeeps, ForgetKeeps, SpawnKeeps, ReturnKeeps DEF Close
  <2>3. ASSUME NEW g \in Gens, FlushLoop(g) PROVE Inv'
    BY <2>1, <2>3, StartKeeps, SelectKeeps, SignalledKeeps, FlushKeeps, ExitKeeps DEF FlushLoop
  <2>4. ASSUME NEW r \in Refs, Redialer(r) PROVE Inv'
    BY <2>1, <2>4, GiveUpKeeps, DialFKeeps, NewOnceKeeps, NewCloseKeeps, SetConnKeeps DEF Redialer
  <2>5. CASE Break
    BY <2>1, <2>5, BreakKeeps
  <2> QED BY <1>2, <2>2, <2>3, <2>4, <2>5 DEF Next
<1> QED BY <1>1, <1>2

LEMMA InvHolds == Spec => []Inv
  BY InitInv, NextInv, PTL DEF Spec

\* Each incarnation's Close meets its own fields, until somebody calls Close
\* from outside, whatever else the goroutines do and in whatever order.
THEOREM StrayNeedsOutsideHolds == Spec => []StrayNeedsOutside
<1>1. Inv => StrayNeedsOutside
  BY DEF Inv, TypeOK, StrayNeedsOutside
<1> QED BY <1>1, InvHolds, PTL

\* There is no way to a panic that does not lead over a Close that meets
\* fields which are not its own.
THEOREM PanicNeedsStrayHolds == Spec => []PanicNeedsStray
<1>1. Inv => PanicNeedsStray
  BY DEF Inv, TypeOK, PanicNeedsStray
<1> QED BY <1>1, InvHolds, PTL

\* Two flushLoops never run flush at one time, as long as no Close has strayed.
THEOREM OneFlushLoopHolds == Spec => []OneFlushLoop
<1>1. Inv => OneFlushLoop
  <2>1. ASSUME Inv, ~stray, NEW g \in Gens, Flushing(g) PROVE g = made
    BY <2>1, AtWork DEF Inv, Flushing
  <2> QED BY <2>1 DEF OneFlushLoop
<1> QED BY <1>1, InvHolds, PTL

\* No connection is lost that was dialed, as long as no Close has strayed.
THEOREM NoLeakHolds == Spec => []NoLeak
<1>1. Inv => NoLeak
  <2>1. ASSUME Inv, ~stray, NEW g \in Gens, sock[g] \notin {"none", "closed"}, conn # g
        PROVE  \E r \in Refs : dialed[r] = g /\ redialer[r] # "finished"
    <3>1. Orderly /\ TypeOK
      BY <2>1 DEF Inv
    <3>2. g = made /\ Resetting(Resets)
      BY <2>1, <3>1 DEF Orderly, OncesOK, TypeOK, Gens, Refs
    <3>3. made - 1 \in Refs /\ redialer[made - 1] \in Resets
      BY <3>1, <3>2, RedialAssumption DEF TypeOK, Refs, Resetting
    <3>4. dialed[made - 1] = g /\ redialer[made - 1] # "finished"
      BY <3>1, <3>2, <3>3 DEF Orderly, DialersOK, Resets
    <3> QED BY <3>3, <3>4
  <2> QED BY <2>1 DEF NoLeak
<1> QED BY <1>1, InvHolds, PTL

-----------------------------------------------------------------------------
(***************************************************************************)
(* What holds in any case, whoever has called Close and whatever fields it *)
(* has met, and also when the program has panicked.  Incarnations follow   *)
(* one another in a chain, a body of closeOnce is run by one goroutine     *)
(* which closes the channel of its own incarnation or panics, and a        *)
(* flushLoop that loses its done leaves another one without.               *)
(***************************************************************************)
Fresh == Befores \union {"outside", "leave"}
Made(g) == at[g] \notin {"none", "start"}
Went(p) == at[p] \notin Fresh

\* Redialer r dials connection r + 1, and only after redialer r - 1 has put
\* closeOnce r into the Conn.
ChainOK ==
  /\ redialer[0] \in {"dialing", "gaveUp"} <=> made = 0
  /\ \A r \in Refs :
       /\ r > made => redialer[r] = "idle"
       /\ r = made => redialer[r] \in {"idle", "dialing", "gaveUp"}
       /\ r < made => redialer[r] \in Resets \union {"finished"} \/ (r = 0 /\ redialer[r] = "idle")
       /\ redialer[r] \in Resets => dialed[r] = r + 1
       /\ redialer[r] = "newOnce" => r + 1 = made
  /\ closeOnce = IF Resetting({"newOnce"}) THEN made - 1 ELSE made
  /\ \A g \in Gens : at[g] = "none" <=> g > made \/ redialer[g - 1] \in Resets

\* The body of each closeOnce is run by one goroutine, which starts the
\* redialer; a flushLoop closes its own incarnation or a later one.
BodiesOK ==
  /\ \A g \in Gens :
       /\ once[g] # "new" => g <= closeOnce
       /\ once[g] = "new" => redialer[g] = "idle"
       /\ once[g] = "done" => redialer[g] # "idle"
       /\ once[g] = "running" => \E p \in Procs : InBody(p) /\ of[p] = g
  /\ \A p \in Procs :
       /\ InBody(p) => once[of[p]] = "running" /\ (at[p] = "return" <=> redialer[of[p]] # "idle")
       /\ Went(p) => of[p] \in Gens /\ once[of[p]] # "new"
       /\ at[p] \in {"returned", "ended"} => once[of[p]] = "done"
  /\ \A p, q \in Procs : InBody(p) /\ InBody(q) /\ of[p] = of[q] => p = q
  /\ \A g \in Gens : Went(g) => of[g] >= g

\* Every close channel but the last is closed; what c.close holds is one of them.
ClosesOK ==
  /\ closed = 1..made \/ closed = 1..(made - 1)
  /\ \A p \in Procs : InBody(p) /\ at[p] # "signal" => of[p] \in closed
  /\ \A r \in Gens : redialer[r] # "idle" => r \in closed
  /\ close <= made
  /\ \A g \in Gens : at[g] # "none" => close # 0
  /\ \A r \in Refs : redialer[r] = "setConn" => close # 0
  /\ \A g \in Gens : at[g] = "selected" => chan[g] \in 1..made

\* A flushLoop that has closed a done which is not its own leaves one behind
\* whose done is closed while it runs.
DonesOK ==
  /\ \A g \in Gens : Made(g) => done # 0
  /\ done # 0 => Made(done) /\ (done \notin finished => Flushing(done))
  /\ finished = {g \in Gens : Made(g) /\ ~Flushing(g)} \/ \E g \in Gens : Flushing(g) /\ g \in finished
  /\ \A p \in Procs : at[p] = "wait" => chan[p] \in Gens /\ Made(chan[p])

Ever == ChainOK /\ BodiesOK /\ ClosesOK /\ DonesOK

LEMMA ChainStays ==
  ASSUME ChainOK, UNCHANGED <<closeOnce, redialer, dialed, made>>,
         \A g \in Gens : at'[g] = "none" <=> at[g] = "none"
  PROVE  ChainOK'
BY DEF ChainOK, Resetting

LEMMA BodiesStay ==
  ASSUME BodiesOK, UNCHANGED <<closeOnce, once, of, redialer>>,
         \A p \in Procs :
           \/ at'[p] = at[p]
           \/ at[p] \in Fresh /\ at'[p] \in Fresh
           \/ at[p] \in Working /\ at'[p] \in Working
  PROVE  BodiesOK'
<1>1. ASSUME NEW p \in Procs
      PROVE  /\ InBody(p)' <=> InBody(p)
             /\ Went(p)' <=> Went(p)
             /\ at'[p] = "return" <=> at[p] = "return"
             /\ at'[p] \in {"returned", "ended"} <=> at[p] \in {"returned", "ended"}
  BY DEF InBody, Went, Fresh, Befores, Working
<1>2. Gens \subseteq Procs
  BY DEF Procs
<1>3. \A p \in Procs : InBody(p)' <=> InBody(p)
  BY <1>1
<1> QED BY <1>1, <1>2, <1>3 DEF BodiesOK

LEMMA ClosesStay ==
  ASSUME ClosesOK, UNCHANGED <<close, closed, redialer, made>>,
         \A p \in Procs : InBody(p)' /\ at'[p] # "signal" => InBody(p) /\ at[p] # "signal" /\ of'[p] = of[p],
         \A g \in Gens : at'[g] # "none" => at[g] # "none",
         \A g \in Gens : at'[g] = "selected" => at[g] = "selected" /\ chan'[g] = chan[g]
  PROVE  ClosesOK'
BY DEF ClosesOK

LEMMA DonesStay ==
  ASSUME DonesOK, done \in Refs, UNCHANGED <<done, finished>>,
         \A g \in Gens : (Made(g)' <=> Made(g)) /\ (Flushing(g)' <=> Flushing(g)),
         \A p \in Procs : at'[p] = "wait" => at[p] = "wait" /\ chan'[p] = chan[p]
  PROVE  DonesOK'
<1>1. {g \in Gens : Made(g) /\ ~Flushing(g)}' = {g \in Gens : Made(g) /\ ~Flushing(g)}
  OBVIOUS
<1>2. done # 0 => done \in Gens
  BY DEF Refs, Gens
<1>3. \A p \in Procs : at'[p] = "wait" => chan'[p] \in Gens /\ Made(chan[p])'
  BY DEF DonesOK, Made
<1>4. done' # 0 => Made(done)' /\ (done' \notin finished' => Flushing(done)')
  BY <1>2 DEF DonesOK, Made, Flushing
<1>5. \A g \in Gens : Made(g)' => done' # 0
  BY DEF DonesOK
<1>6. finished' = {g \in Gens : Made(g) /\ ~Flushing(g)}' \/ \E g \in Gens : Flushing(g)' /\ g \in finished'
  BY <1>1 DEF DonesOK
<1> QED BY <1>3, <1>4, <1>5, <1>6 DEF DonesOK, Made, Flushing

\* A step that leaves all this alone, by a goroutine that stays in its part of
\* the program.
LEMMA EverStays ==
  ASSUME Ever, TypeOK,
         UNCHANGED <<closeOnce, close, done, once, closed, finished, of, chan, redialer, dialed, made>>,
         \A p \in Procs :
           \/ at'[p] = at[p]
           \/ at[p] \in {"select", "selected", "exit"} /\ at'[p] \in {"select", "exit"}
           \/ at[p] \in Working \ {"signal"} /\ at'[p] \in Working \ {"signal", "wait"}
  PROVE  Ever'
<1>1. ASSUME NEW p \in Procs
      PROVE  /\ at'[p] = "none" <=> at[p] = "none"
             /\ at'[p] = "start" <=> at[p] = "start"
             /\ Flushing(p)' <=> Flushing(p)
             /\ at'[p] = "selected" => at[p] = "selected"
             /\ at'[p] = "wait" => at[p] = "wait"
             /\ InBody(p)' /\ at'[p] # "signal" => InBody(p) /\ at[p] # "signal"
             /\ at'[p] = at[p] \/ (at[p] \in Fresh /\ at'[p] \in Fresh) \/ (at[p] \in Working /\ at'[p] \in Working)
  BY DEF Flushing, InBody, Working, Fresh, Befores
<1>2. Gens \subseteq Procs
  BY DEF Procs
<1>3. ChainOK'
  BY <1>1, <1>2, ChainStays DEF Ever
<1>4. BodiesOK'
  BY <1>1, BodiesStay DEF Ever
<1>5. ClosesOK'
  BY <1>1, <1>2, ClosesStay DEF Ever
<1>6. DonesOK'
  <2>1. \A g \in Gens : (Made(g)' <=> Made(g)) /\ (Flushing(g)' <=> Flushing(g))
    BY <1>1, <1>2 DEF Made
  <2> QED BY <1>1, <2>1, DonesStay DEF Ever, TypeOK
<1> QED BY <1>3, <1>4, <1>5, <1>6 DEF Ever

LEMMA DoEver == ASSUME NEW p \in Procs, TypeOK, PlacesOK, Ever, Do(p) PROVE Ever'
<1> USE RedialAssumption
<1>1. closeOnce \in Gens /\ at[p] \in {"outside", "leave"} /\ of' = [of EXCEPT ![p] = closeOnce]
  BY DEF TypeOK, Do, Calls, Gens, Refs
<1>2. UNCHANGED <<closeOnce, close, done, conn, closed, finished, sock, chan, redialer, dialed, made>>
  BY DEF Do, fields, redialVars
<1>3. \/ /\ once[closeOnce] = "new" /\ once' = [once EXCEPT ![closeOnce] = "running"]
         /\ at' = [at EXCEPT ![p] = "signal"]
      \/ once[closeOnce] # "new" /\ once' = once /\ at' = [at EXCEPT ![p] = "await"]
  BY DEF Do, Goto
<1>4. /\ \A q \in Procs \ {p} : at'[q] = at[q] /\ of'[q] = of[q]
      /\ at'[p] \in {"signal", "await"} /\ of'[p] = closeOnce
      /\ at'[p] = "signal" <=> once[closeOnce] = "new"
  BY <1>1, <1>3 DEF TypeOK
<1>5. /\ \A g \in Gens \ {closeOnce} : once'[g] = once[g]
      /\ once'[closeOnce] = IF once[closeOnce] = "new" THEN "running" ELSE once[closeOnce]
  BY <1>1, <1>3 DEF TypeOK
<1>6. p \in Gens => closeOnce >= p
  <2>1. made \in Int /\ closeOnce = IF Resetting({"newOnce"}) THEN made - 1 ELSE made
    BY DEF Ever, ChainOK, TypeOK, Refs
  <2>2. SUFFICES ASSUME p \in Gens PROVE closeOnce >= p
    OBVIOUS
  <2>3. p \in Int /\ at[p] # "none"
    BY <1>1, <2>2 DEF Gens
  <2>4. (at[p] = "none") <=> (p > made \/ redialer[p - 1] \in Resets)
    BY <2>2 DEF Ever, ChainOK
  <2>5. p <= made /\ redialer[p - 1] \notin Resets
    BY <2>1, <2>3, <2>4
  <2>6. Resetting({"newOnce"}) => p # made
    BY <2>5 DEF Resetting, Resets
  <2> QED BY <2>1, <2>3, <2>5, <2>6
<1>7. ChainOK'
  <2>1. \A g \in Gens : at'[g] = "none" <=> at[g] = "none"
    BY <1>1, <1>4 DEF Procs
  <2> QED BY <1>2, <2>1, ChainStays DEF Ever
<1>8. BodiesOK'
  <2>0. ~InBody(p) /\ at[p] \notin {"return", "returned", "ended"}
    BY <1>1 DEF InBody
  <2>1. ASSUME NEW g \in Gens, once'[g] = "running" PROVE \E q \in Procs : InBody(q)' /\ of'[q] = g
    <3>1. CASE once[g] = "running"
      <4>1. PICK q \in Procs : InBody(q) /\ of[q] = g
        BY <3>1 DEF Ever, BodiesOK
      <4> QED BY <1>4, <2>0, <4>1 DEF InBody
    <3>2. CASE once[g] # "running"
      BY <1>3, <1>4, <1>5, <2>1, <3>2 DEF InBody
    <3> QED BY <3>1, <3>2
  <2>2. \A g \in Gens :
          /\ once'[g] # "new" => g <= closeOnce'
          /\ once'[g] = "new" => redialer'[g] = "idle"
          /\ once'[g] = "done" => redialer'[g] # "idle"
    BY <1>1, <1>2, <1>5 DEF Ever, BodiesOK, Gens
  <2>3. ASSUME NEW q \in Procs
        PROVE  /\ InBody(q)' => once'[of'[q]] = "running" /\ (at'[q] = "return" <=> redialer'[of'[q]] # "idle")
               /\ Went(q)' => of'[q] \in Gens /\ once'[of'[q]] # "new"
               /\ at'[q] \in {"returned", "ended"} => once'[of'[q]] = "done"
    <3>1. CASE q = p
      BY <1>1, <1>2, <1>4, <1>5, <3>1 DEF Ever, BodiesOK, InBody
    <3>2. CASE q # p
      <4>1. at'[q] = at[q] /\ of'[q] = of[q]
        BY <1>4, <3>2
      <4>2. of[q] \in Gens => once'[of[q]] = once[of[q]] \/ (once[of[q]] = "new" /\ once'[of[q]] = "running")
        BY <1>5
      <4>3. InBody(q) \/ at[q] \in {"returned", "ended"} => Went(q)
        BY DEF InBody, Went, Fresh, Befores
      <4> QED BY <1>2, <4>1, <4>2, <4>3 DEF Ever, BodiesOK, InBody, Went
    <3> QED BY <3>1, <3>2
  <2>4. ASSUME NEW q \in Procs, NEW s \in Procs, InBody(q)', InBody(s)', of'[q] = of'[s] PROVE q = s
    <3>1. \A u \in Procs \ {p} : InBody(u)' => InBody(u) /\ once[of'[u]] = "running" /\ of'[u] = of[u]
      BY <1>4 DEF Ever, BodiesOK, InBody
    <3>2. InBody(p)' => once[of'[p]] = "new"
      BY <1>4 DEF InBody
    <3> QED BY <2>4, <3>1, <3>2 DEF Ever, BodiesOK
  <2>5. ASSUME NEW g \in Gens, Went(g)' PROVE of'[g] >= g
    <3>1. CASE g = p
      BY <1>4, <1>6, <3>1
    <3>2. CASE g # p
      BY <1>4, <2>5, <3>2 DEF Ever, BodiesOK, Went, Procs
    <3> QED BY <3>1, <3>2
  <2> QED BY <2>1, <2>2, <2>3, <2>4, <2>5 DEF BodiesOK
<1>9. ClosesOK'
  <2>1. \A q \in Procs : InBody(q)' /\ at'[q] # "signal" => InBody(q) /\ at[q] # "signal" /\ of'[q] = of[q]
    BY <1>4 DEF InBody
  <2>2. \A g \in Gens : (at'[g] # "none" => at[g] # "none")
                     /\ (at'[g] = "selected" => at[g] = "selected" /\ chan'[g] = chan[g])
    BY <1>1, <1>2, <1>4 DEF Procs
  <2> QED BY <1>2, <2>1, <2>2, ClosesStay DEF Ever
<1>10. DonesOK'
  <2>1. \A g \in Gens : (Made(g)' <=> Made(g)) /\ (Flushing(g)' <=> Flushing(g))
    BY <1>1, <1>4 DEF Made, Flushing, Procs
  <2>2. \A q \in Procs : at'[q] = "wait" => at[q] = "wait" /\ chan'[q] = chan[q]
    BY <1>2, <1>4
  <2> QED BY <1>2, <2>1, <2>2, DonesStay DEF Ever, TypeOK
<1> QED BY <1>7, <1>8, <1>9, <1>10 DEF Ever

LEMMA AwaitEver == ASSUME NEW p \in Procs, TypeOK, PlacesOK, Ever, Await(p) PROVE Ever'
<1> USE RedialAssumption
<1>1. /\ at[p] = "await" /\ once[of[p]] = "done"
      /\ at' = [at EXCEPT ![p] = Returned(p)] /\ Returned(p) \in {"returned", "ended"}
  BY DEF Await, Goto, Returned
<1>2. UNCHANGED <<closeOnce, close, done, once, closed, finished, of, chan, redialer, dialed, made>>
  BY DEF Await, fields, objects, redialVars
<1>3. (\A q \in Procs \ {p} : at'[q] = at[q]) /\ at'[p] \in {"returned", "ended"}
  BY <1>1 DEF TypeOK
<1>4. ChainOK'
  <2>1. \A g \in Gens : at'[g] = "none" <=> at[g] = "none"
    BY <1>1, <1>3 DEF Procs
  <2> QED BY <1>2, <2>1, ChainStays DEF Ever
<1>5. BodiesOK'
  <2>1. \A q \in Procs : /\ InBody(q)' <=> InBody(q)
                         /\ Went(q)' <=> Went(q)
                         /\ at'[q] = "return" <=> at[q] = "return"
                         /\ at'[q] \in {"returned", "ended"} => q = p \/ at[q] \in {"returned", "ended"}
    BY <1>1, <1>3 DEF InBody, Went, Fresh, Befores
  <2>2. Gens \subseteq Procs
    BY DEF Procs
  <2> QED BY <1>1, <1>2, <2>1, <2>2 DEF Ever, BodiesOK
<1>6. ClosesOK'
  <2>1. \A q \in Procs : InBody(q)' /\ at'[q] # "signal" => InBody(q) /\ at[q] # "signal" /\ of'[q] = of[q]
    BY <1>2, <1>3 DEF InBody
  <2>2. \A g \in Gens : (at'[g] # "none" => at[g] # "none")
                     /\ (at'[g] = "selected" => at[g] = "selected" /\ chan'[g] = chan[g])
    BY <1>1, <1>2, <1>3 DEF Procs
  <2> QED BY <1>2, <2>1, <2>2, ClosesStay DEF Ever
<1>7. DonesOK'
  <2>1. \A g \in Gens : (Made(g)' <=> Made(g)) /\ (Flushing(g)' <=> Flushing(g))
    BY <1>1, <1>3 DEF Made, Flushing, Procs
  <2>2. \A q \in Procs : at'[q] = "wait" => at[q] = "wait" /\ chan'[q] = chan[q]
    BY <1>2, <1>3
  <2> QED BY <1>2, <2>1, <2>2, DonesStay DEF Ever, TypeOK
<1> QED BY <1>4, <1>5, <1>6, <1>7 DEF Ever

\* A goroutine in a body that has not started the redialer works for the last
\* incarnation.
LEMMA BodyIsLast ==
  ASSUME TypeOK, Ever, NEW p \in Procs, InBody(p), at[p] # "return"
  PROVE  of[p] = made /\ made \in Gens
<1>1. of[p] \in Gens /\ redialer[of[p]] = "idle" /\ once[of[p]] = "running"
  BY DEF Ever, BodiesOK, InBody, Went, Fresh, Befores
<1>2. of[p] <= made
  <2>1. of[p] <= closeOnce
    BY <1>1 DEF Ever, BodiesOK
  <2>2. made \in Int /\ closeOnce \in {made - 1, made} /\ of[p] \in Int
    BY <1>1 DEF Ever, ChainOK, TypeOK, Gens, Refs
  <2> QED BY <2>1, <2>2
<1>3. ~(of[p] < made)
  BY <1>1 DEF Ever, ChainOK, Resets, Gens, Refs
<1>4. of[p] \in Int /\ made \in Int
  BY <1>1 DEF TypeOK, Gens, Refs
<1> QED BY <1>1, <1>2, <1>3, <1>4

\* It closes the channel of that incarnation, or panics.
LEMMA SignalEver == ASSUME NEW p \in Procs, TypeOK, PlacesOK, Ever, Signal(p) PROVE Ever'
<1> USE RedialAssumption
<1>1. UNCHANGED <<closeOnce, close, done, once, finished, of, chan, redialer, dialed, made>> /\ at[p] = "signal"
  BY DEF Signal, fields, redialVars
<1>2. CASE close = 0 \/ close \in closed
  <2>1. closed' = closed /\ at' = at
    BY <1>2 DEF Signal
  <2> QED BY <1>1, <2>1, EverStays
<1>3. CASE close # 0 /\ close \notin closed
  <2>1. closed' = closed \union {close} /\ at' = [at EXCEPT ![p] = "sync"]
    BY <1>3 DEF Signal, Goto
  <2>2. (\A q \in Procs \ {p} : at'[q] = at[q]) /\ at'[p] = "sync"
    BY <2>1 DEF TypeOK
  <2>3. of[p] = made /\ made \in Gens
    BY <1>1, BodyIsLast DEF InBody
  <2>4. closed' = 1..made
    <3>1. close \in Nat \ {0} /\ close <= made /\ made \in Nat
      BY <1>3 DEF TypeOK, Ever, ClosesOK, Refs
    <3>2. closed = 1..(made - 1)
      BY <1>3, <3>1 DEF Ever, ClosesOK
    <3>3. close = made
      BY <1>3, <3>1, <3>2
    <3> QED BY <2>1, <3>1, <3>2, <3>3
  <2>5. ChainOK'
    <3>1. \A g \in Gens : at'[g] = "none" <=> at[g] = "none"
      BY <1>1, <2>2 DEF Procs
    <3> QED BY <1>1, <3>1, ChainStays DEF Ever
  <2>6. BodiesOK'
    <3>1. \A q \in Procs : at'[q] = at[q] \/ (at[q] \in Working /\ at'[q] \in Working)
      BY <1>1, <2>2 DEF Working
    <3> QED BY <1>1, <3>1, BodiesStay DEF Ever
  <2>7. ClosesOK'
    <3>1. \A q \in Procs : InBody(q)' /\ at'[q] # "signal" => of'[q] \in closed'
      <4>1. made \in closed'
        BY <2>3, <2>4 DEF Gens
      <4> QED BY <1>1, <2>1, <2>2, <2>3, <4>1 DEF Ever, ClosesOK, InBody
    <3>2. \A g \in Gens : (at'[g] # "none" => at[g] # "none")
                       /\ (at'[g] = "selected" => at[g] = "selected")
      BY <1>1, <2>2 DEF Procs
    <3> QED BY <1>1, <2>1, <2>4, <3>1, <3>2 DEF Ever, ClosesOK
  <2>8. DonesOK'
    <3>1. \A g \in Gens : (Made(g)' <=> Made(g)) /\ (Flushing(g)' <=> Flushing(g))
      BY <1>1, <2>2 DEF Made, Flushing, Procs
    <3>2. \A q \in Procs : at'[q] = "wait" => at[q] = "wait" /\ chan'[q] = chan[q]
      BY <1>1, <2>2
    <3> QED BY <1>1, <3>1, <3>2, DonesStay DEF Ever, TypeOK
  <2> QED BY <2>5, <2>6, <2>7, <2>8 DEF Ever
<1> QED BY <1>2, <1>3

LEMMA SyncEver == ASSUME NEW p \in Procs, TypeOK, PlacesOK, Ever, Sync(p) PROVE Ever'
<1> USE RedialAssumption
<1>1. /\ UNCHANGED <<closeOnce, close, done, once, closed, finished, of, redialer, dialed, made>>
      /\ at[p] = "sync" /\ chan' = [chan EXCEPT ![p] = done]
      /\ at' = [at EXCEPT ![p] = IF done = 0 THEN "check" ELSE "wait"]
  BY DEF Sync, fields, objects, redialVars, Goto
<1>2. /\ \A q \in Procs \ {p} : at'[q] = at[q] /\ chan'[q] = chan[q]
      /\ chan'[p] = done /\ at'[p] = IF done = 0 THEN "check" ELSE "wait"
  BY <1>1 DEF TypeOK
<1>3. ChainOK'
  <2>1. \A g \in Gens : at'[g] = "none" <=> at[g] = "none"
    BY <1>1, <1>2 DEF Procs
  <2> QED BY <1>1, <2>1, ChainStays DEF Ever
<1>4. BodiesOK'
  <2>1. \A q \in Procs : at'[q] = at[q] \/ (at[q] \in Working /\ at'[q] \in Working)
    BY <1>1, <1>2 DEF Working
  <2> QED BY <1>1, <2>1, BodiesStay DEF Ever
<1>5. ClosesOK'
  <2>1. \A q \in Procs : InBody(q)' /\ at'[q] # "signal" => InBody(q) /\ at[q] # "signal" /\ of'[q] = of[q]
    BY <1>1, <1>2 DEF InBody
  <2>2. \A g \in Gens : (at'[g] # "none" => at[g] # "none")
                     /\ (at'[g] = "selected" => at[g] = "selected" /\ chan'[g] = chan[g])
    BY <1>1, <1>2 DEF Procs
  <2> QED BY <1>1, <2>1, <2>2, ClosesStay DEF Ever
<1>6. DonesOK'
  <2>1. ASSUME NEW g \in Gens PROVE (Made(g)' <=> Made(g)) /\ (Flushing(g)' <=> Flushing(g))
    BY <1>1, <1>2 DEF Made, Flushing, Procs
  <2>2. {g \in Gens : Made(g) /\ ~Flushing(g)}' = {g \in Gens : Made(g) /\ ~Flushing(g)}
    BY <2>1
  <2>3. done # 0 => done \in Gens
    BY DEF Refs, Gens, TypeOK
  <2>4. ASSUME NEW q \in Procs, at'[q] = "wait" PROVE chan'[q] \in Gens /\ at'[chan'[q]] \notin {"none", "start"}
    <3>1. chan'[q] \in Gens /\ Made(chan'[q])
      <4>1. CASE q = p
        BY <1>2, <2>3, <2>4, <4>1 DEF Ever, DonesOK
      <4>2. CASE q # p
        BY <1>2, <2>4, <4>2 DEF Ever, DonesOK
      <4> QED BY <4>1, <4>2
    <3> QED BY <2>1, <3>1 DEF Made
  <2>5. \A g \in Gens : Made(g)' => done' # 0
    BY <1>1, <2>1 DEF Ever, DonesOK
  <2>6. done' # 0 => Made(done)' /\ (done' \notin finished' => Flushing(done)')
    BY <1>1, <2>1, <2>3 DEF Ever, DonesOK
  <2>7. finished' = {g \in Gens : Made(g) /\ ~Flushing(g)}' \/ \E g \in Gens : Flushing(g)' /\ g \in finished'
    BY <1>1, <2>1, <2>2 DEF Ever, DonesOK
  <2> QED BY <2>4, <2>5, <2>6, <2>7 DEF DonesOK, Made, Flushing
<1> QED BY <1>3, <1>4, <1>5, <1>6 DEF Ever

\* The steps that touch nothing of this.
LEMMA QuietEver ==
  ASSUME NEW p \in Procs, TypeOK, PlacesOK, Ever,
         DoNil(p) \/ Wait(p) \/ Check(p) \/ HangUp(p) \/ Forget(p)
  PROVE  Ever'
<1>1. UNCHANGED <<closeOnce, close, done, once, closed, finished, of, chan, redialer, dialed, made>>
  BY DEF DoNil, Wait, Check, HangUp, Forget, Panic, fields, objects, procVars, redialVars
<1>2. \/ at' = at
      \/ /\ at[p] \in {"wait", "check", "hangUp", "forget"}
         /\ \E there \in {"check", "hangUp", "spawn", "forget"} : at' = [at EXCEPT ![p] = there]
  BY DEF DoNil, Wait, Check, HangUp, Forget, Panic, procVars, Goto
<1>3. \A q \in Procs : \/ at'[q] = at[q]
                       \/ at[q] \in Working \ {"signal"} /\ at'[q] \in Working \ {"signal", "wait"}
  BY <1>2 DEF TypeOK, Working
<1> QED BY <1>1, <1>3, EverStays

LEMMA FlushesEver ==
  ASSUME NEW g \in Gens, TypeOK, Ever, Signalled(g) \/ Flush(g)
  PROVE  Ever'
<1>1. UNCHANGED <<closeOnce, close, done, once, closed, finished, of, chan, redialer, dialed, made>>
  BY DEF Signalled, Flush, fields, objects, redialVars
<1>2. \/ at' = at
      \/ at[g] = "selected" /\ \E there \in {"select", "exit"} : at' = [at EXCEPT ![g] = there]
  BY DEF Signalled, Flush, Goto
<1>3. \A q \in Procs : \/ at'[q] = at[q]
                       \/ at[q] \in {"select", "selected", "exit"} /\ at'[q] \in {"select", "exit"}
  BY <1>2 DEF TypeOK
<1> QED BY <1>1, <1>3, EverStays

LEMMA BreakEver == ASSUME TypeOK, Ever, Break PROVE Ever'
<1>1. UNCHANGED <<closeOnce, close, done, once, closed, finished, of, chan, at, redialer, dialed, made>>
  BY DEF Break, fields, procVars, redialVars
<1> QED BY <1>1, EverStays

LEMMA SpawnEver == ASSUME NEW p \in Procs, TypeOK, PlacesOK, Ever, Spawn(p) PROVE Ever'
<1> USE RedialAssumption
<1>1. /\ UNCHANGED <<closeOnce, close, done, once, closed, finished, of, chan, dialed, made>>
      /\ at[p] = "spawn" /\ redialer' = [redialer EXCEPT ![of[p]] = "dialing"]
      /\ at' = [at EXCEPT ![p] = "return"]
  BY DEF Spawn, fields, objects, Goto, GotoR
<1>2. (\A q \in Procs \ {p} : at'[q] = at[q]) /\ at'[p] = "return"
  BY <1>1 DEF TypeOK
<1>3. of[p] = made /\ made \in Gens /\ once[made] = "running" /\ made \in closed /\ redialer[made] = "idle"
  BY <1>1, BodyIsLast DEF InBody, Ever, BodiesOK, ClosesOK
<1>4. (\A r \in Refs \ {made} : redialer'[r] = redialer[r]) /\ redialer'[made] = "dialing"
  BY <1>1, <1>3 DEF TypeOK, Gens, Refs
<1>5. ChainOK'
  <2>1. \A g \in Gens : at'[g] = "none" <=> at[g] = "none"
    BY <1>1, <1>2 DEF Procs
  <2>2. \A r \in Refs : redialer'[r] \in Resets <=> redialer[r] \in Resets
    BY <1>3, <1>4 DEF Resets
  <2>3. \A r \in Refs : redialer'[r] = "newOnce" <=> redialer[r] = "newOnce"
    BY <1>3, <1>4
  <2>4. Resetting({"newOnce"})' <=> Resetting({"newOnce"})
    BY <1>1, <1>3, <2>3 DEF Resetting, Gens, Refs
  <2>5. \A g \in Gens : at'[g] = "none" <=> g > made' \/ redialer'[g - 1] \in Resets
    <3>1. \A g \in Gens : g - 1 \in Refs
      BY DEF Gens, Refs
    <3> QED BY <1>1, <2>1, <2>2, <3>1 DEF Ever, ChainOK
  <2>6. redialer'[0] \in {"dialing", "gaveUp"} <=> made' = 0
    BY <1>1, <1>3, <1>4 DEF Ever, ChainOK, Gens, Refs
  <2>7. ASSUME NEW r \in Refs
        PROVE  /\ r > made' => redialer'[r] = "idle"
               /\ r = made' => redialer'[r] \in {"idle", "dialing", "gaveUp"}
               /\ r < made' => redialer'[r] \in Resets \union {"finished"} \/ (r = 0 /\ redialer'[r] = "idle")
               /\ redialer'[r] \in Resets => dialed'[r] = r + 1
               /\ redialer'[r] = "newOnce" => r + 1 = made'
    BY <1>1, <1>3, <1>4, <2>2, <2>3 DEF Ever, ChainOK, Gens, Refs
  <2> QED BY <1>1, <2>4, <2>5, <2>6, <2>7 DEF Ever, ChainOK
<1>6. BodiesOK'
  <2>1. ASSUME NEW q \in Procs
        PROVE  /\ InBody(q)' <=> InBody(q)
               /\ Went(q)' <=> Went(q)
               /\ at'[q] = "return" <=> at[q] = "return" \/ q = p
               /\ at'[q] \in {"returned", "ended"} <=> at[q] \in {"returned", "ended"}
    BY <1>1, <1>2 DEF InBody, Went, Fresh, Befores
  <2>2. ASSUME NEW g \in Gens
        PROVE  /\ once'[g] # "new" => g <= closeOnce'
               /\ once'[g] = "new" => redialer'[g] = "idle"
               /\ once'[g] = "done" => redialer'[g] # "idle"
               /\ once'[g] = "running" => \E q \in Procs : InBody(q)' /\ of'[q] = g
    BY <1>1, <1>3, <1>4, <2>1 DEF Ever, BodiesOK, Gens, Refs
  <2>3. ASSUME NEW q \in Procs, InBody(q)'
        PROVE  once'[of'[q]] = "running" /\ (at'[q] = "return" <=> redialer'[of'[q]] # "idle")
    <3>1. InBody(q) /\ once[of[q]] = "running" /\ of[q] \in Gens
      BY <2>1, <2>3 DEF Ever, BodiesOK, InBody, Went, Fresh, Befores
    <3>2. CASE q = p
      BY <1>1, <1>2, <1>3, <1>4, <3>2 DEF Gens, Refs
    <3>3. CASE q # p
      <4>1. of[q] # made
        BY <1>1, <1>3, <3>1, <3>3 DEF Ever, BodiesOK, InBody
      <4> QED BY <1>1, <1>2, <1>4, <3>1, <3>3, <4>1 DEF Ever, BodiesOK, Gens, Refs
    <3> QED BY <3>2, <3>3
  <2>4. ASSUME NEW q \in Procs
        PROVE  /\ Went(q)' => of'[q] \in Gens /\ once'[of'[q]] # "new"
               /\ at'[q] \in {"returned", "ended"} => once'[of'[q]] = "done"
    BY <1>1, <2>1 DEF Ever, BodiesOK
  <2>5. \A q, s \in Procs : InBody(q)' /\ InBody(s)' /\ of'[q] = of'[s] => q = s
    BY <1>1, <2>1 DEF Ever, BodiesOK
  <2>6. \A g \in Gens : Went(g)' => of'[g] >= g
    BY <1>1, <2>1 DEF Ever, BodiesOK, Procs
  <2> QED BY <2>2, <2>3, <2>4, <2>5, <2>6 DEF BodiesOK
<1>7. ClosesOK'
  <2>1. \A q \in Procs : InBody(q)' /\ at'[q] # "signal" => of'[q] \in closed'
    BY <1>1, <1>2, <1>3 DEF Ever, ClosesOK, InBody
  <2>2. \A r \in Gens : redialer'[r] # "idle" => r \in closed'
    BY <1>1, <1>3, <1>4 DEF Ever, ClosesOK, Gens, Refs
  <2>3. \A r \in Refs : redialer'[r] = "setConn" => close' # 0
    BY <1>1, <1>4 DEF Ever, ClosesOK
  <2>4. \A g \in Gens : (at'[g] # "none" => at[g] # "none")
                     /\ (at'[g] = "selected" => at[g] = "selected")
    BY <1>1, <1>2 DEF Procs
  <2> QED BY <1>1, <2>1, <2>2, <2>3, <2>4 DEF Ever, ClosesOK
<1>8. DonesOK'
  <2>1. \A g \in Gens : (Made(g)' <=> Made(g)) /\ (Flushing(g)' <=> Flushing(g))
    BY <1>1, <1>2 DEF Made, Flushing, Procs
  <2>2. \A q \in Procs : at'[q] = "wait" => at[q] = "wait" /\ chan'[q] = chan[q]
    BY <1>1, <1>2
  <2> QED BY <1>1, <2>1, <2>2, DonesStay DEF Ever, TypeOK
<1> QED BY <1>5, <1>6, <1>7, <1>8 DEF Ever

LEMMA ReturnEver == ASSUME NEW p \in Procs, TypeOK, PlacesOK, Ever, Return(p) PROVE Ever'
<1> USE RedialAssumption
<1>1. /\ UNCHANGED <<closeOnce, close, done, closed, finished, of, chan, redialer, dialed, made>>
      /\ at[p] = "return" /\ once' = [once EXCEPT ![of[p]] = "done"]
      /\ at' = [at EXCEPT ![p] = Returned(p)] /\ Returned(p) \in {"returned", "ended"}
  BY DEF Return, fields, redialVars, Goto, Returned
<1>2. (\A q \in Procs \ {p} : at'[q] = at[q]) /\ at'[p] \in {"returned", "ended"}
  BY <1>1 DEF TypeOK
<1>3. of[p] \in Gens /\ once[of[p]] = "running" /\ redialer[of[p]] # "idle"
  BY <1>1 DEF Ever, BodiesOK, InBody, Went, Fresh, Befores
<1>4. (\A g \in Gens \ {of[p]} : once'[g] = once[g]) /\ once'[of[p]] = "done"
  BY <1>1, <1>3 DEF TypeOK
<1>5. ChainOK'
  <2>1. \A g \in Gens : at'[g] = "none" <=> at[g] = "none"
    BY <1>1, <1>2 DEF Procs
  <2> QED BY <1>1, <2>1, ChainStays DEF Ever
<1>6. BodiesOK'
  <2>1. ASSUME NEW q \in Procs
        PROVE  /\ InBody(q)' <=> InBody(q) /\ q # p
               /\ Went(q)' <=> Went(q)
               /\ InBody(q) => Went(q)
    BY <1>1, <1>2 DEF InBody, Went, Fresh, Befores
  <2>2. \A q \in Procs : InBody(q)' => of[q] # of[p]
    <3>1. InBody(p)
      BY <1>1 DEF InBody
    <3> QED BY <2>1, <3>1 DEF Ever, BodiesOK
  <2>3. ASSUME NEW g \in Gens
        PROVE  /\ once'[g] # "new" => g <= closeOnce'
               /\ once'[g] = "new" => redialer'[g] = "idle"
               /\ once'[g] = "done" => redialer'[g] # "idle"
               /\ once'[g] = "running" => \E q \in Procs : InBody(q)' /\ of'[q] = g
    <3>1. CASE g = of[p]
      BY <1>1, <1>3, <1>4, <3>1 DEF Ever, BodiesOK
    <3>2. CASE g # of[p]
      <4>1. once[g] = "running" => \E q \in Procs : InBody(q) /\ of[q] = g
        BY DEF Ever, BodiesOK
      <4>2. once[g] = "running" => \E q \in Procs : InBody(q)' /\ of'[q] = g
        BY <1>1, <2>1, <3>2, <4>1
      <4> QED BY <1>1, <1>4, <3>2, <4>2 DEF Ever, BodiesOK
    <3> QED BY <3>1, <3>2
  <2>4. ASSUME NEW q \in Procs
        PROVE  /\ InBody(q)' => once'[of'[q]] = "running" /\ (at'[q] = "return" <=> redialer'[of'[q]] # "idle")
               /\ Went(q)' => of'[q] \in Gens /\ once'[of'[q]] # "new"
               /\ at'[q] \in {"returned", "ended"} => once'[of'[q]] = "done"
    <3>1. of[q] \in Gens => once'[of[q]] = IF of[q] = of[p] THEN "done" ELSE once[of[q]]
      BY <1>4
    <3>2. CASE q = p
      BY <1>1, <1>2, <1>3, <1>4, <2>1, <3>2
    <3>3. CASE q # p
      <4>1. at'[q] = at[q]
        BY <1>2, <3>3
      <4>2. Went(q) => of[q] \in Gens /\ once[of[q]] # "new"
        BY DEF Ever, BodiesOK
      <4>3. at[q] \in {"returned", "ended"} => Went(q) /\ once[of[q]] = "done"
        BY DEF Ever, BodiesOK, Went, Fresh, Befores
      <4>4. InBody(q) => once[of[q]] = "running" /\ (at[q] = "return" <=> redialer[of[q]] # "idle")
        BY DEF Ever, BodiesOK
      <4> QED BY <1>1, <2>1, <2>2, <3>1, <4>1, <4>2, <4>3, <4>4
    <3> QED BY <3>2, <3>3
  <2>5. \A q, s \in Procs : InBody(q)' /\ InBody(s)' /\ of'[q] = of'[s] => q = s
    BY <1>1, <2>1 DEF Ever, BodiesOK
  <2>6. \A g \in Gens : Went(g)' => of'[g] >= g
    BY <1>1, <2>1 DEF Ever, BodiesOK, Procs
  <2> QED BY <2>3, <2>4, <2>5, <2>6 DEF BodiesOK
<1>7. ClosesOK'
  <2>1. \A q \in Procs : InBody(q)' /\ at'[q] # "signal" => InBody(q) /\ at[q] # "signal" /\ of'[q] = of[q]
    BY <1>1, <1>2 DEF InBody
  <2>2. \A g \in Gens : (at'[g] # "none" => at[g] # "none")
                     /\ (at'[g] = "selected" => at[g] = "selected" /\ chan'[g] = chan[g])
    BY <1>1, <1>2 DEF Procs
  <2> QED BY <1>1, <2>1, <2>2, ClosesStay DEF Ever
<1>8. DonesOK'
  <2>1. \A g \in Gens : (Made(g)' <=> Made(g)) /\ (Flushing(g)' <=> Flushing(g))
    BY <1>1, <1>2 DEF Made, Flushing, Procs
  <2>2. \A q \in Procs : at'[q] = "wait" => at[q] = "wait" /\ chan'[q] = chan[q]
    BY <1>1, <1>2
  <2> QED BY <1>1, <2>1, <2>2, DonesStay DEF Ever, TypeOK
<1> QED BY <1>5, <1>6, <1>7, <1>8 DEF Ever

LEMMA GiveUpEver == ASSUME NEW r \in Refs, TypeOK, PlacesOK, Ever, GiveUp(r) PROVE Ever'
<1> USE RedialAssumption
<1>1. /\ UNCHANGED <<closeOnce, close, done, conn, once, closed, finished, at, of, chan, dialed, made>>
      /\ redialer[r] = "dialing" /\ redialer' = [redialer EXCEPT ![r] = "gaveUp"]
  BY DEF GiveUp, fields, objects, procVars, GotoR
<1>2. \A s \in Refs : redialer'[s] = IF s = r THEN "gaveUp" ELSE redialer[s]
  BY <1>1 DEF TypeOK
<1>3. \A s \in Refs : /\ redialer'[s] = "idle" <=> redialer[s] = "idle"
                      /\ redialer'[s] = "finished" <=> redialer[s] = "finished"
                      /\ redialer'[s] \in {"dialing", "gaveUp"} <=> redialer[s] \in {"dialing", "gaveUp"}
                      /\ redialer'[s] \in Resets <=> redialer[s] \in Resets
                      /\ redialer'[s] = "newOnce" <=> redialer[s] = "newOnce"
                      /\ redialer'[s] = "setConn" <=> redialer[s] = "setConn"
  BY <1>1, <1>2 DEF Resets
<1>4. Gens \subseteq Refs /\ 0 \in Refs /\ (made > 0 => made - 1 \in Refs) /\ \A g \in Gens : g - 1 \in Refs
  BY DEF TypeOK, Gens, Refs
<1>5. ChainOK'
  <2>1. Resetting({"newOnce"})' <=> Resetting({"newOnce"})
    BY <1>1, <1>3, <1>4 DEF Resetting
  <2>2. \A g \in Gens : at'[g] = "none" <=> g > made' \/ redialer'[g - 1] \in Resets
    BY <1>1, <1>3, <1>4 DEF Ever, ChainOK
  <2>3. ASSUME NEW s \in Refs
        PROVE  /\ s > made' => redialer'[s] = "idle"
               /\ s = made' => redialer'[s] \in {"idle", "dialing", "gaveUp"}
               /\ s < made' => redialer'[s] \in Resets \union {"finished"} \/ (s = 0 /\ redialer'[s] = "idle")
               /\ redialer'[s] \in Resets => dialed'[s] = s + 1
               /\ redialer'[s] = "newOnce" => s + 1 = made'
    BY <1>1, <1>3 DEF Ever, ChainOK
  <2>4. redialer'[0] \in {"dialing", "gaveUp"} <=> made' = 0
    BY <1>1, <1>3, <1>4 DEF Ever, ChainOK
  <2> QED BY <1>1, <2>1, <2>2, <2>3, <2>4 DEF Ever, ChainOK
<1>6. BodiesOK'
  <2>1. \A p \in Procs : (InBody(p)' <=> InBody(p)) /\ (Went(p)' <=> Went(p)) /\ (InBody(p) => of[p] \in Refs)
    BY <1>1 DEF InBody, Went, TypeOK
  <2>2. Gens \subseteq Procs
    BY DEF Procs
  <2> QED BY <1>1, <1>3, <1>4, <2>1, <2>2 DEF Ever, BodiesOK
<1>7. ClosesOK'
  BY <1>1, <1>3, <1>4 DEF Ever, ClosesOK, InBody
<1>8. DonesOK'
  <2>1. \A g \in Gens : (Made(g)' <=> Made(g)) /\ (Flushing(g)' <=> Flushing(g))
    BY <1>1 DEF Made, Flushing
  <2> QED BY <1>1, <2>1, DonesStay DEF Ever, TypeOK
<1> QED BY <1>5, <1>6, <1>7, <1>8 DEF Ever

LEMMA DialFEver == ASSUME NEW r \in Refs, TypeOK, PlacesOK, Ever, DialF(r) PROVE Ever'
<1> USE RedialAssumption
<1>1. /\ UNCHANGED <<closeOnce, close, done, once, closed, finished, at, of, chan>>
      /\ redialer[r] = "dialing" /\ made < MaxConns /\ made' = made + 1
      /\ dialed' = [dialed EXCEPT ![r] = made + 1] /\ redialer' = [redialer EXCEPT ![r] = "newOnce"]
  BY DEF DialF, procVars, GotoR
<1>2. r = made /\ made \in Nat /\ r \in Nat /\ made + 1 \in Gens
  <2>1. made \in Nat /\ r \in Nat /\ made + 1 \in Gens
    BY <1>1 DEF TypeOK, Refs, Gens
  <2>2. ~(r > made) /\ ~(r < made)
    BY <1>1 DEF Ever, ChainOK, Resets
  <2> QED BY <2>1, <2>2
<1>3. /\ \A s \in Refs \ {made} : redialer'[s] = redialer[s] /\ dialed'[s] = dialed[s]
      /\ redialer'[made] = "newOnce" /\ dialed'[made] = made + 1
  BY <1>1, <1>2 DEF TypeOK
<1>4. Gens \subseteq Refs /\ Refs \subseteq Nat
  BY DEF Gens, Refs
<1>5. ~Resetting({"newOnce"})
  <2>1. CASE made = 0
    BY <2>1 DEF Resetting
  <2>2. CASE made \in Gens
    <3>1. once[made] # "new"
      BY <1>1, <1>2, <2>2 DEF Ever, BodiesOK
    <3>2. closeOnce >= made
      BY <2>2, <3>1 DEF Ever, BodiesOK, Gens, TypeOK, Refs
    <3> QED BY <1>2, <3>2 DEF Ever, ChainOK
  <2> QED BY <1>2, <2>1, <2>2 DEF TypeOK, Refs, Gens
<1>6. ChainOK'
  <2>1. closeOnce' = IF Resetting({"newOnce"})' THEN made' - 1 ELSE made'
    <3>1. Resetting({"newOnce"})'
      BY <1>1, <1>2, <1>3 DEF Resetting
    <3> QED BY <1>1, <1>2, <1>5, <3>1 DEF Ever, ChainOK
  <2>2. ASSUME NEW g \in Gens PROVE at'[g] = "none" <=> g > made' \/ redialer'[g - 1] \in Resets
    <3>1. g \in Nat /\ g - 1 \in Refs
      BY DEF Gens, Refs
    <3>2. CASE g = made + 1
      BY <1>1, <1>2, <1>3, <3>2 DEF Ever, ChainOK, Resets
    <3>3. CASE g # made + 1
      <4>1. redialer'[g - 1] = redialer[g - 1]
        BY <1>2, <1>3, <3>1, <3>3
      <4> QED BY <1>1, <1>2, <3>1, <3>3, <4>1 DEF Ever, ChainOK
    <3> QED BY <3>2, <3>3
  <2>3. ASSUME NEW s \in Refs
        PROVE  /\ s > made' => redialer'[s] = "idle"
               /\ s = made' => redialer'[s] \in {"idle", "dialing", "gaveUp"}
               /\ s < made' => redialer'[s] \in Resets \union {"finished"} \/ (s = 0 /\ redialer'[s] = "idle")
               /\ redialer'[s] \in Resets => dialed'[s] = s + 1
               /\ redialer'[s] = "newOnce" => s + 1 = made'
    <3>1. CASE s = made
      BY <1>1, <1>2, <1>3, <3>1 DEF Resets
    <3>2. CASE s # made
      <4>1. redialer'[s] = redialer[s] /\ dialed'[s] = dialed[s] /\ s \in Nat
        BY <1>3, <1>4, <3>2
      <4>2. redialer[s] # "newOnce"
        <5>1. redialer[s] = "newOnce" => s + 1 = made
          BY DEF Ever, ChainOK
        <5> QED BY <1>2, <1>5, <4>1, <5>1 DEF Resetting
      <4> QED BY <1>1, <1>2, <3>2, <4>1, <4>2 DEF Ever, ChainOK
    <3> QED BY <3>1, <3>2
  <2>4. redialer'[0] \in {"dialing", "gaveUp"} <=> made' = 0
    BY <1>1, <1>2, <1>3, <1>4 DEF Ever, ChainOK, Refs
  <2> QED BY <2>1, <2>2, <2>3, <2>4 DEF ChainOK
<1>7. BodiesOK'
  <2>1. \A g \in Gens : redialer'[g] # "idle" <=> redialer[g] # "idle"
    BY <1>1, <1>2, <1>3, <1>4
  <2>3. \A p \in Procs : (InBody(p)' <=> InBody(p)) /\ (Went(p)' <=> Went(p)) /\ (InBody(p) => of[p] \in Gens)
    BY <1>1 DEF InBody, Went, Fresh, Befores, Ever, BodiesOK
  <2>4. Gens \subseteq Procs
    BY DEF Procs
  <2> QED BY <1>1, <2>1, <2>3, <2>4 DEF Ever, BodiesOK
<1>8. ClosesOK'
  <2>1. closed = 1..made
    <3>1. made \in Gens => made \in closed
      BY <1>1, <1>2 DEF Ever, ClosesOK
    <3>2. made \in Gens \/ made = 0
      BY <1>2 DEF TypeOK, Gens, Refs
    <3> QED BY <1>2, <3>1, <3>2 DEF Ever, ClosesOK
  <2>2. closed' = 1..(made' - 1) /\ close' <= made'
    BY <1>1, <1>2, <2>1 DEF Ever, ClosesOK, TypeOK, Refs
  <2>3. \A s \in Gens : redialer'[s] # "idle" => s \in closed'
    BY <1>1, <1>2, <1>3, <1>4 DEF Ever, ClosesOK
  <2>4. \A s \in Refs : redialer'[s] = "setConn" => close' # 0
    BY <1>1, <1>2, <1>3 DEF Ever, ClosesOK
  <2>5. \A g \in Gens : at'[g] = "selected" => chan'[g] \in 1..made'
    BY <1>1, <1>2 DEF Ever, ClosesOK
  <2> QED BY <1>1, <2>2, <2>3, <2>4, <2>5 DEF Ever, ClosesOK, InBody
<1>9. DonesOK'
  <2>1. \A g \in Gens : (Made(g)' <=> Made(g)) /\ (Flushing(g)' <=> Flushing(g))
    BY <1>1 DEF Made, Flushing
  <2> QED BY <1>1, <2>1, DonesStay DEF Ever, TypeOK
<1> QED BY <1>6, <1>7, <1>8, <1>9 DEF Ever

\* A redialer that goes on within its reset, or comes to its end.
LEMMA ResetBodies ==
  ASSUME NEW r \in Refs, TypeOK, BodiesOK, redialer[r] \in Resets, NEW there \in Resets \union {"finished"},
         redialer' = [redialer EXCEPT ![r] = there], UNCHANGED <<once, of>>,
         closeOnce \in Refs, closeOnce' \in Refs, closeOnce <= closeOnce',
         \A p \in Procs : at'[p] = at[p] \/ (at[p] \in Fresh /\ at'[p] \in Fresh)
  PROVE  BodiesOK'
<1>1. \A g \in Gens : redialer'[g] # "idle" <=> redialer[g] # "idle"
  BY DEF TypeOK, Resets, Gens, Refs
<1>2. ASSUME NEW p \in Procs
      PROVE  /\ InBody(p)' <=> InBody(p)
             /\ Went(p)' <=> Went(p)
             /\ InBody(p) => of[p] \in Gens
             /\ at'[p] = "return" <=> at[p] = "return"
             /\ at'[p] \in {"returned", "ended"} <=> at[p] \in {"returned", "ended"}
  BY DEF InBody, Went, Fresh, Befores, BodiesOK
<1>3. Gens \subseteq Procs
  BY DEF Procs
<1>4. \A g \in Gens : g <= closeOnce => g <= closeOnce'
  BY DEF Gens, Refs
<1> QED BY <1>1, <1>2, <1>3, <1>4 DEF BodiesOK

LEMMA NewOnceEver == ASSUME NEW r \in Refs, TypeOK, PlacesOK, Ever, NewOnce(r) PROVE Ever'
<1> USE RedialAssumption
<1>1. /\ UNCHANGED <<close, done, once, closed, finished, at, of, chan, dialed, made>>
      /\ redialer[r] = "newOnce" /\ closeOnce' = dialed[r]
      /\ redialer' = [redialer EXCEPT ![r] = "newClose"]
  BY DEF NewOnce, objects, procVars, GotoR
<1>2. (\A s \in Refs \ {r} : redialer'[s] = redialer[s]) /\ redialer'[r] = "newClose"
  BY <1>1 DEF TypeOK
<1>3. r + 1 = made /\ dialed[r] = made /\ made \in Nat /\ r \in Nat
  BY <1>1 DEF Ever, ChainOK, Resets, TypeOK, Refs
<1>4. \A s \in Refs : redialer'[s] \in Resets <=> redialer[s] \in Resets
  BY <1>1, <1>2 DEF Resets
<1>5. ChainOK'
  <2>1. closeOnce' = made' /\ ~Resetting({"newOnce"})'
    BY <1>1, <1>2, <1>3 DEF Resetting
  <2>2. \A g \in Gens : g - 1 \in Refs
    BY DEF Gens, Refs
  <2>3. \A g \in Gens : at'[g] = "none" <=> g > made' \/ redialer'[g - 1] \in Resets
    BY <1>1, <1>4, <2>2 DEF Ever, ChainOK
  <2>4. redialer'[0] \in {"dialing", "gaveUp"} <=> made' = 0
    BY <1>1, <1>2, <1>3 DEF Ever, ChainOK, Refs
  <2>5. \A s \in Refs :
          /\ s > made' => redialer'[s] = "idle"
          /\ s = made' => redialer'[s] \in {"idle", "dialing", "gaveUp"}
          /\ s < made' => redialer'[s] \in Resets \union {"finished"} \/ (s = 0 /\ redialer'[s] = "idle")
          /\ redialer'[s] \in Resets => dialed'[s] = s + 1
          /\ redialer'[s] = "newOnce" => s + 1 = made'
    BY <1>1, <1>2, <1>3, <1>4 DEF Ever, ChainOK, Resets
  <2> QED BY <2>1, <2>3, <2>4, <2>5 DEF ChainOK
<1>6. BodiesOK'
  <2>1. closeOnce \in Refs /\ closeOnce' \in Refs /\ closeOnce <= closeOnce'
    BY <1>1, <1>3 DEF Ever, ChainOK, Resetting, TypeOK, Refs
  <2> QED BY <1>1, <2>1, ResetBodies DEF Ever, Resets
<1>7. ClosesOK'
  <2>1. \A s \in Gens : redialer'[s] # "idle" => s \in closed'
    BY <1>1, <1>2 DEF Ever, ClosesOK, Gens, Refs
  <2>2. \A s \in Refs : redialer'[s] = "setConn" => close' # 0
    BY <1>1, <1>2 DEF Ever, ClosesOK
  <2> QED BY <1>1, <2>1, <2>2 DEF Ever, ClosesOK, InBody
<1>8. DonesOK'
  <2>1. \A g \in Gens : (Made(g)' <=> Made(g)) /\ (Flushing(g)' <=> Flushing(g))
    BY <1>1 DEF Made, Flushing
  <2> QED BY <1>1, <2>1, DonesStay DEF Ever, TypeOK
<1> QED BY <1>5, <1>6, <1>7, <1>8 DEF Ever

LEMMA NewCloseEver == ASSUME NEW r \in Refs, TypeOK, PlacesOK, Ever, NewClose(r) PROVE Ever'
<1> USE RedialAssumption
<1>1. /\ UNCHANGED <<closeOnce, done, once, closed, finished, at, of, chan, dialed, made>>
      /\ redialer[r] = "newClose" /\ close' = dialed[r]
      /\ redialer' = [redialer EXCEPT ![r] = "setConn"]
  BY DEF NewClose, objects, procVars, GotoR
<1>2. (\A s \in Refs \ {r} : redialer'[s] = redialer[s]) /\ redialer'[r] = "setConn"
  BY <1>1 DEF TypeOK
<1>3. dialed[r] = r + 1 /\ r < made /\ made \in Nat /\ r \in Nat
  <2>1. made \in Nat /\ r \in Nat
    BY DEF TypeOK, Refs
  <2>2. ~(r > made) /\ r # made /\ dialed[r] = r + 1
    BY <1>1 DEF Ever, ChainOK, Resets
  <2> QED BY <2>1, <2>2
<1>4. \A s \in Refs : /\ redialer'[s] \in Resets <=> redialer[s] \in Resets
                      /\ redialer'[s] = "newOnce" <=> redialer[s] = "newOnce"
  BY <1>1, <1>2 DEF Resets
<1>5. ChainOK'
  <2>1. Resetting({"newOnce"})' <=> Resetting({"newOnce"})
    BY <1>1, <1>4 DEF Resetting, TypeOK, Refs
  <2>2. \A g \in Gens : g - 1 \in Refs
    BY DEF Gens, Refs
  <2>3. \A g \in Gens : at'[g] = "none" <=> g > made' \/ redialer'[g - 1] \in Resets
    BY <1>1, <1>4, <2>2 DEF Ever, ChainOK
  <2>4. redialer'[0] \in {"dialing", "gaveUp"} <=> made' = 0
    BY <1>1, <1>2, <1>3 DEF Ever, ChainOK, Refs
  <2>5. \A s \in Refs :
          /\ s > made' => redialer'[s] = "idle"
          /\ s = made' => redialer'[s] \in {"idle", "dialing", "gaveUp"}
          /\ s < made' => redialer'[s] \in Resets \union {"finished"} \/ (s = 0 /\ redialer'[s] = "idle")
          /\ redialer'[s] \in Resets => dialed'[s] = s + 1
          /\ redialer'[s] = "newOnce" => s + 1 = made'
    BY <1>1, <1>2, <1>3, <1>4 DEF Ever, ChainOK, Resets
  <2> QED BY <1>1, <2>1, <2>3, <2>4, <2>5 DEF Ever, ChainOK
<1>6. BodiesOK'
  <2>1. closeOnce \in Refs /\ closeOnce' \in Refs /\ closeOnce <= closeOnce'
    BY <1>1, <1>3 DEF Ever, ChainOK, Resetting, TypeOK, Refs
  <2> QED BY <1>1, <2>1, ResetBodies DEF Ever, Resets
<1>7. ClosesOK'
  <2>1. \A s \in Gens : redialer'[s] # "idle" => s \in closed'
    BY <1>1, <1>2 DEF Ever, ClosesOK, Gens, Refs
  <2>2. close' # 0 /\ close' <= made'
    BY <1>1, <1>3
  <2> QED BY <1>1, <2>1, <2>2 DEF Ever, ClosesOK, InBody
<1>8. DonesOK'
  <2>1. \A g \in Gens : (Made(g)' <=> Made(g)) /\ (Flushing(g)' <=> Flushing(g))
    BY <1>1 DEF Made, Flushing
  <2> QED BY <1>1, <2>1, DonesStay DEF Ever, TypeOK
<1> QED BY <1>5, <1>6, <1>7, <1>8 DEF Ever

LEMMA SetConnEver == ASSUME NEW r \in Refs, TypeOK, PlacesOK, Ever, SetConn(r) PROVE Ever'
<1> USE RedialAssumption
<1>1. /\ UNCHANGED <<closeOnce, close, done, once, closed, finished, of, chan, dialed, made>>
      /\ redialer[r] = "setConn" /\ at' = [at EXCEPT ![dialed[r]] = "start"]
      /\ redialer' = [redialer EXCEPT ![r] = "finished"]
  BY DEF SetConn, objects, Goto, GotoR
<1>2. (\A s \in Refs \ {r} : redialer'[s] = redialer[s]) /\ redialer'[r] = "finished"
  BY <1>1 DEF TypeOK
<1>3. dialed[r] = r + 1 /\ r < made /\ made \in Nat /\ r \in Nat /\ r + 1 \in Gens /\ at[r + 1] = "none"
  <2>1. made \in Nat /\ r \in Nat
    BY DEF TypeOK, Refs
  <2>2. ~(r > made) /\ r # made /\ dialed[r] = r + 1
    BY <1>1 DEF Ever, ChainOK, Resets
  <2>3. r < made /\ r + 1 \in Gens /\ (r + 1) - 1 = r
    BY <2>1, <2>2 DEF Gens, Refs, TypeOK
  <2> QED BY <1>1, <2>1, <2>2, <2>3 DEF Ever, ChainOK, Resets
<1>4. (\A q \in Procs \ {r + 1} : at'[q] = at[q]) /\ at'[r + 1] = "start"
  BY <1>1, <1>3 DEF TypeOK, Procs
<1>5. ChainOK'
  <2>1. \A s \in Refs : redialer'[s] = "newOnce" <=> redialer[s] = "newOnce"
    BY <1>1, <1>2
  <2>2. Resetting({"newOnce"})' <=> Resetting({"newOnce"})
    BY <1>1, <2>1 DEF Resetting, TypeOK, Refs
  <2>3. ASSUME NEW g \in Gens PROVE at'[g] = "none" <=> g > made' \/ redialer'[g - 1] \in Resets
    <3>1. g - 1 \in Refs /\ g \in Nat /\ g \in Procs
      BY DEF Gens, Refs, Procs
    <3>2. CASE g = r + 1
      BY <1>1, <1>2, <1>3, <1>4, <3>1, <3>2 DEF Resets
    <3>3. CASE g # r + 1
      <4>1. redialer'[g - 1] = redialer[g - 1] /\ at'[g] = at[g]
        BY <1>2, <1>3, <1>4, <3>1, <3>3
      <4> QED BY <1>1, <4>1 DEF Ever, ChainOK
    <3> QED BY <3>2, <3>3
  <2>4. redialer'[0] \in {"dialing", "gaveUp"} <=> made' = 0
    BY <1>1, <1>2, <1>3 DEF Ever, ChainOK, Refs
  <2>5. \A s \in Refs :
          /\ s > made' => redialer'[s] = "idle"
          /\ s = made' => redialer'[s] \in {"idle", "dialing", "gaveUp"}
          /\ s < made' => redialer'[s] \in Resets \union {"finished"} \/ (s = 0 /\ redialer'[s] = "idle")
          /\ redialer'[s] \in Resets => dialed'[s] = s + 1
          /\ redialer'[s] = "newOnce" => s + 1 = made'
    BY <1>1, <1>2, <1>3 DEF Ever, ChainOK, Resets
  <2> QED BY <1>1, <2>2, <2>3, <2>4, <2>5 DEF Ever, ChainOK
<1>6. BodiesOK'
  <2>1. \A p \in Procs : at'[p] = at[p] \/ (at[p] \in Fresh /\ at'[p] \in Fresh)
    BY <1>3, <1>4 DEF Fresh, Befores
  <2>2. closeOnce \in Refs /\ closeOnce' \in Refs /\ closeOnce <= closeOnce'
    BY <1>1 DEF TypeOK, Refs
  <2> QED BY <1>1, <2>1, <2>2, ResetBodies DEF Ever, Resets
<1>7. ClosesOK'
  <2>1. close # 0
    BY <1>1 DEF Ever, ClosesOK
  <2>2. \A s \in Gens : redialer'[s] # "idle" => s \in closed'
    BY <1>1, <1>2 DEF Ever, ClosesOK, Gens, Refs
  <2>3. \A p \in Procs : InBody(p)' /\ at'[p] # "signal" => of'[p] \in closed'
    BY <1>1, <1>4 DEF Ever, ClosesOK, InBody
  <2>4. \A g \in Gens : at'[g] = "selected" => chan'[g] \in 1..made'
    BY <1>1, <1>4 DEF Ever, ClosesOK, Procs
  <2> QED BY <1>1, <2>1, <2>2, <2>3, <2>4 DEF Ever, ClosesOK
<1>8. DonesOK'
  <2>1. \A g \in Gens : (Made(g)' <=> Made(g)) /\ (Flushing(g)' <=> Flushing(g))
    BY <1>3, <1>4 DEF Made, Flushing, Procs
  <2>2. \A q \in Procs : at'[q] = "wait" => at[q] = "wait" /\ chan'[q] = chan[q]
    BY <1>1, <1>4
  <2> QED BY <1>1, <2>1, <2>2, DonesStay DEF Ever, TypeOK
<1> QED BY <1>5, <1>6, <1>7, <1>8 DEF Ever

LEMMA StartEver == ASSUME NEW g \in Gens, TypeOK, Ever, Start(g) PROVE Ever'
<1> USE RedialAssumption
<1>1. /\ UNCHANGED <<closeOnce, close, once, closed, finished, of, chan, redialer, dialed, made>>
      /\ at[g] = "start" /\ done' = g /\ at' = [at EXCEPT ![g] = "select"]
  BY DEF Start, objects, redialVars, Goto
<1>2. (\A q \in Procs \ {g} : at'[q] = at[q]) /\ at'[g] = "select" /\ Gens \subseteq Procs
  BY <1>1 DEF TypeOK, Procs
<1>3. ChainOK'
  <2>1. \A h \in Gens : at'[h] = "none" <=> at[h] = "none"
    BY <1>1, <1>2
  <2> QED BY <1>1, <2>1, ChainStays DEF Ever
<1>4. BodiesOK'
  <2>1. \A q \in Procs : at'[q] = at[q] \/ (at[q] \in Fresh /\ at'[q] \in Fresh)
    BY <1>1, <1>2 DEF Fresh, Befores
  <2> QED BY <1>1, <2>1, BodiesStay DEF Ever
<1>5. ClosesOK'
  <2>1. \A q \in Procs : InBody(q)' /\ at'[q] # "signal" => InBody(q) /\ at[q] # "signal" /\ of'[q] = of[q]
    BY <1>1, <1>2 DEF InBody
  <2>2. \A h \in Gens : (at'[h] # "none" => at[h] # "none")
                     /\ (at'[h] = "selected" => at[h] = "selected" /\ chan'[h] = chan[h])
    BY <1>1, <1>2
  <2> QED BY <1>1, <2>1, <2>2, ClosesStay DEF Ever
<1>6. DonesOK'
  <2>1. ASSUME NEW h \in Gens
        PROVE  /\ Made(h)' <=> Made(h) \/ h = g
               /\ Flushing(h)' <=> Flushing(h) \/ h = g
    BY <1>1, <1>2 DEF Made, Flushing
  <2>2. ~Made(g) /\ ~Flushing(g)
    BY <1>1 DEF Made, Flushing
  <2>3. {h \in Gens : Made(h) /\ ~Flushing(h)}' = {h \in Gens : Made(h) /\ ~Flushing(h)}
    BY <2>1, <2>2
  <2>4. done' # 0 /\ at'[done'] = "select"
    BY <1>1, <1>2 DEF Gens
  <2>5. finished' = {h \in Gens : Made(h) /\ ~Flushing(h)}' \/ \E h \in Gens : Flushing(h)' /\ h \in finished'
    BY <1>1, <2>1, <2>3 DEF Ever, DonesOK
  <2>6. ASSUME NEW q \in Procs, at'[q] = "wait" PROVE chan'[q] \in Gens /\ at'[chan'[q]] \notin {"none", "start"}
    <3>1. chan'[q] \in Gens /\ Made(chan'[q])
      BY <1>1, <1>2, <2>6 DEF Ever, DonesOK
    <3> QED BY <2>1, <3>1 DEF Made
  <2> QED BY <2>4, <2>5, <2>6 DEF DonesOK, Made, Flushing
<1> QED BY <1>3, <1>4, <1>5, <1>6 DEF Ever

LEMMA SelectEver == ASSUME NEW g \in Gens, TypeOK, Ever, Select(g) PROVE Ever'
<1> USE RedialAssumption
<1>1. /\ UNCHANGED <<closeOnce, close, done, once, closed, finished, of, redialer, dialed, made>>
      /\ at[g] = "select" /\ chan' = [chan EXCEPT ![g] = close] /\ at' = [at EXCEPT ![g] = "selected"]
  BY DEF Select, fields, objects, redialVars, Goto
<1>2. /\ \A q \in Procs \ {g} : at'[q] = at[q] /\ chan'[q] = chan[q]
      /\ at'[g] = "selected" /\ chan'[g] = close /\ Gens \subseteq Procs
  BY <1>1 DEF TypeOK, Procs
<1>3. ChainOK'
  <2>1. \A h \in Gens : at'[h] = "none" <=> at[h] = "none"
    BY <1>1, <1>2
  <2> QED BY <1>1, <2>1, ChainStays DEF Ever
<1>4. BodiesOK'
  <2>1. \A q \in Procs : at'[q] = at[q] \/ (at[q] \in Fresh /\ at'[q] \in Fresh)
    BY <1>1, <1>2 DEF Fresh, Befores
  <2> QED BY <1>1, <2>1, BodiesStay DEF Ever
<1>5. ClosesOK'
  <2>1. \A q \in Procs : InBody(q)' /\ at'[q] # "signal" => of'[q] \in closed'
    BY <1>1, <1>2 DEF Ever, ClosesOK, InBody
  <2>2. close \in 1..made
    BY <1>1 DEF Ever, ClosesOK, TypeOK, Refs
  <2>3. \A h \in Gens : (at'[h] # "none" => at[h] # "none")
                     /\ (at'[h] = "selected" => chan'[h] \in 1..made')
    BY <1>1, <1>2, <2>2 DEF Ever, ClosesOK
  <2> QED BY <1>1, <2>1, <2>3 DEF Ever, ClosesOK
<1>6. DonesOK'
  <2>1. \A h \in Gens : (Made(h)' <=> Made(h)) /\ (Flushing(h)' <=> Flushing(h))
    BY <1>1, <1>2 DEF Made, Flushing
  <2>2. \A q \in Procs : at'[q] = "wait" => at[q] = "wait" /\ chan'[q] = chan[q]
    BY <1>1, <1>2
  <2> QED BY <1>1, <2>1, <2>2, DonesStay DEF Ever, TypeOK
<1> QED BY <1>3, <1>4, <1>5, <1>6 DEF Ever

\* The flushLoop whose done is in the Conn is still at work unless that done is
\* closed: one that closes another's leaves that one at work.
LEMMA ExitEver == ASSUME NEW g \in Gens, TypeOK, Ever, Exit(g) PROVE Ever'
<1> USE RedialAssumption
<1>1. UNCHANGED <<closeOnce, close, done, once, closed, of, chan, redialer, dialed, made>> /\ at[g] = "exit"
  BY DEF Exit, Panic, fields, objects, procVars, redialVars
<1>2. CASE done \in finished
  <2>1. finished' = finished /\ at' = at
    BY <1>2 DEF Exit, Panic, objects, procVars
  <2> QED BY <1>1, <2>1, EverStays
<1>3. CASE done \notin finished
  <2>1. finished' = finished \union {done} /\ at' = [at EXCEPT ![g] = "leave"]
    BY <1>3 DEF Exit, Goto
  <2>2. (\A q \in Procs \ {g} : at'[q] = at[q]) /\ at'[g] = "leave" /\ Gens \subseteq Procs
    BY <2>1 DEF TypeOK, Procs
  <2>3. ChainOK'
    <3>1. \A h \in Gens : at'[h] = "none" <=> at[h] = "none"
      BY <1>1, <2>2
    <3> QED BY <1>1, <3>1, ChainStays DEF Ever
  <2>4. BodiesOK'
    <3>1. \A q \in Procs : at'[q] = at[q] \/ (at[q] \in Fresh /\ at'[q] \in Fresh)
      BY <1>1, <2>2 DEF Fresh, Befores
    <3> QED BY <1>1, <3>1, BodiesStay DEF Ever
  <2>5. ClosesOK'
    <3>1. \A q \in Procs : InBody(q)' /\ at'[q] # "signal" => InBody(q) /\ at[q] # "signal" /\ of'[q] = of[q]
      BY <1>1, <2>2 DEF InBody
    <3>2. \A h \in Gens : (at'[h] # "none" => at[h] # "none")
                       /\ (at'[h] = "selected" => at[h] = "selected" /\ chan'[h] = chan[h])
      BY <1>1, <2>2
    <3> QED BY <1>1, <3>1, <3>2, ClosesStay DEF Ever
  <2>6. DonesOK'
    <3>1. ASSUME NEW h \in Gens
          PROVE  /\ Made(h)' <=> Made(h)
                 /\ Flushing(h)' <=> Flushing(h) /\ h # g
      BY <1>1, <2>2 DEF Made, Flushing
    <3>2. Made(g) /\ Flushing(g)
      BY <1>1 DEF Made, Flushing
    <3>3. done # 0 /\ done \in Gens /\ Made(done) /\ Flushing(done)
      BY <1>3, <3>2 DEF Ever, DonesOK, TypeOK, Refs, Gens
    <3>4. finished' = {h \in Gens : Made(h) /\ ~Flushing(h)}' \/ \E h \in Gens : Flushing(h)' /\ h \in finished'
      <4>1. CASE done # g
        BY <2>1, <3>1, <3>3, <4>1
      <4>2. CASE done = g /\ finished = {h \in Gens : Made(h) /\ ~Flushing(h)}
        <5>1. finished' = {h \in Gens : (Made(h) /\ ~Flushing(h)) \/ h = g}
          BY <2>1, <4>2
        <5>2. \A h \in Gens : (Made(h)' /\ ~Flushing(h)') <=> ((Made(h) /\ ~Flushing(h)) \/ h = g)
          BY <3>1, <3>2
        <5>3. finished' = {h \in Gens : Made(h) /\ ~Flushing(h)}'
          BY <5>1, <5>2
        <5> QED BY <5>3
      <4>3. CASE done = g /\ \E h \in Gens : Flushing(h) /\ h \in finished
        BY <1>3, <2>1, <3>1, <4>3
      <4> QED BY <4>1, <4>2, <4>3 DEF Ever, DonesOK
    <3>5. \A h \in Gens : Made(h)' => done' # 0
      BY <1>1, <3>3
    <3>6. done' # 0 /\ at'[done'] \notin {"none", "start"} /\ done' \in finished'
      BY <1>1, <2>1, <2>2, <3>1, <3>3 DEF Made
    <3>7. ASSUME NEW q \in Procs, at'[q] = "wait" PROVE chan'[q] \in Gens /\ at'[chan'[q]] \notin {"none", "start"}
      <4>1. chan'[q] \in Gens /\ Made(chan'[q])
        BY <1>1, <2>2, <3>7 DEF Ever, DonesOK
      <4> QED BY <3>1, <4>1 DEF Made
    <3> QED BY <3>4, <3>5, <3>6, <3>7 DEF DonesOK, Made, Flushing
  <2> QED BY <2>3, <2>4, <2>5, <2>6 DEF Ever
<1> QED BY <1>2, <1>3

LEMMA InitEver == Init => Ever
<1> SUFFICES ASSUME Init PROVE Ever
  OBVIOUS
<1> USE RedialAssumption
<1>1. /\ made \in {0, 1} /\ closeOnce = made /\ close = made /\ done = 0
      /\ once = [g \in Gens |-> "new"] /\ closed = {} /\ finished = {}
      /\ redialer = [r \in Refs |-> IF made = 0 /\ r = 0 THEN "dialing" ELSE "idle"]
  BY DEF Init, Dialed, Undialed
<1>2. \A g \in Gens : g \in Procs /\ at[g] = IF g = made THEN "start" ELSE "none"
  BY DEF Init, Dialed, Undialed, Procs, Gens, Refs
<1>3. \A p \in Procs : at[p] \in {"outside", "start", "none"}
  BY DEF Init, Dialed, Undialed
<1>4. ChainOK
  BY <1>1, <1>2 DEF ChainOK, Resets, Resetting, Gens, Refs
<1>5. BodiesOK
  BY <1>1, <1>2, <1>3 DEF BodiesOK, InBody, Went, Fresh, Befores, Gens, Refs
<1>6. ClosesOK
  BY <1>1, <1>2, <1>3 DEF ClosesOK, InBody, Gens, Refs
<1>7. DonesOK
  BY <1>1, <1>2, <1>3 DEF DonesOK, Made, Flushing
<1> QED BY <1>4, <1>5, <1>6, <1>7 DEF Ever

LEMMA NextEver == Inv /\ Ever /\ [Next]_vars => Ever'
<1> SUFFICES ASSUME Inv, Ever, [Next]_vars PROVE Ever'
  OBVIOUS
<1>0. TypeOK /\ PlacesOK
  BY DEF Inv
<1>1. CASE UNCHANGED vars
  BY <1>0, <1>1, EverStays DEF vars, fields, objects, procVars, redialVars
<1>2. CASE Next
  <2>1. ASSUME NEW p \in Procs, Close(p) PROVE Ever'
    BY <1>0, <2>1, DoEver, AwaitEver, SignalEver, SyncEver, QuietEver, SpawnEver, ReturnEver DEF Close
  <2>2. ASSUME NEW g \in Gens, FlushLoop(g) PROVE Ever'
    BY <1>0, <2>2, StartEver, SelectEver, FlushesEver, ExitEver DEF FlushLoop
  <2>3. ASSUME NEW r \in Refs, Redialer(r) PROVE Ever'
    BY <1>0, <2>3, GiveUpEver, DialFEver, NewOnceEver, NewCloseEver, SetConnEver DEF Redialer
  <2>4. CASE Break
    BY <1>0, <2>4, BreakEver
  <2> QED BY <1>2, <2>1, <2>2, <2>3, <2>4 DEF Next
<1> QED BY <1>1, <1>2

LEMMA EverHolds == Spec => []Ever
<1>1. Init => Ever
  BY InitEver
<1>2. Inv /\ Ever /\ [Next]_vars => Ever'
  BY NextEver
<1> QED BY <1>1, <1>2, InvHolds, PTL DEF Spec

\* Whoever closes what and when, somebody is left who redials or will, but
\* where the last redialer gave up: when every goroutine has come to its end,
\* the last flushLoop has closed its own incarnation, and a Close that has been
\* made has started a redialer (conn.go:114-116, forwarder.go:82-106).
THEOREM AttendedHolds == Spec => []Attended
<1>1. Inv /\ Ever => Attended
  <2> USE RedialAssumption
  <2>1. SUFFICES ASSUME TypeOK, PlacesOK, Ever, ~Attended PROVE FALSE
    BY DEF Inv
  <2>2. /\ \A g \in Gens : at[g] \in {"none", "ended"}
        /\ \A r \in Refs : redialer[r] \in {"idle", "finished", "gaveUp"}
        /\ redialer[made] # "gaveUp"
    BY <2>1 DEF Attended, GaveUp, TypeOK
  <2>3. made \in Gens /\ made \in Int
    <3>1. made # 0
      <4>1. made = 0 => redialer[0] \in {"dialing", "gaveUp"}
        BY <2>1 DEF Ever, ChainOK
      <4>2. redialer[0] # "dialing"
        BY <2>2 DEF Refs
      <4> QED BY <2>2, <4>1, <4>2
    <3> QED BY <2>1, <3>1 DEF TypeOK, Refs, Gens
  <2>4. redialer[made] = "idle"
    BY <2>1, <2>2, <2>3 DEF Ever, ChainOK, Gens, Refs
  <2>5. closeOnce = made /\ at[made] = "ended"
    <3>1. redialer[made - 1] \notin Resets
      BY <2>2, <2>3 DEF Resets, Gens, Refs
    <3>2. closeOnce = made
      BY <2>1, <3>1 DEF Ever, ChainOK, Resetting, Resets
    <3>3. at[made] # "none"
      BY <2>1, <2>3, <3>1 DEF Ever, ChainOK
    <3> QED BY <2>2, <2>3, <3>2, <3>3
  <2>6. of[made] = made
    <3>1. made \in Procs /\ Went(made)
      BY <2>3, <2>5 DEF Procs, Went, Fresh, Befores
    <3>2. of[made] \in Gens /\ once[of[made]] # "new" /\ of[made] >= made
      BY <2>1, <2>3, <3>1 DEF Ever, BodiesOK
    <3>3. of[made] <= made
      BY <2>1, <2>5, <3>2 DEF Ever, BodiesOK
    <3> QED BY <2>3, <3>2, <3>3 DEF Gens
  <2>7. once[made] = "done"
    BY <2>1, <2>3, <2>5, <2>6 DEF Ever, BodiesOK, Procs
  <2> QED BY <2>1, <2>3, <2>4, <2>7 DEF Ever, BodiesOK
<1> QED BY <1>1, InvHolds, EverHolds, PTL

\* A Close that waits for a done waits for a flushLoop that has been told to
\* leave, and one that waits for another Close for a goroutine in its body.
THEOREM NoCloseHangsHolds == Spec => []NoCloseHangs
<1>1. Inv /\ Ever => NoCloseHangs
  <2> USE RedialAssumption
  <2>1. SUFFICES ASSUME TypeOK, PlacesOK, Ever, \A g \in Gens : Flushing(g) => HasDone(g), NEW p \in Procs
                 PROVE  /\ at[p] = "wait" => WaitsFor(p)
                        /\ at[p] = "await" =>
                             \/ once[of[p]] = "done"
                             \/ \E q \in Procs \ {p} :
                                  /\ of[q] = of[p] /\ InBody(q)
                                  /\ at[q] = "wait" => chan[q] # p \/ p \in finished
    BY DEF Inv, NoCloseHangs
  <2>2. finished = {g \in Gens : Made(g) /\ ~Flushing(g)}
    BY <2>1 DEF Ever, DonesOK, HasDone
  <2>3. ASSUME at[p] = "wait", chan[p] \notin finished PROVE chan[p] # p /\ WillFinish(chan[p])
    <3>1. chan[p] \in Gens /\ Flushing(chan[p])
      BY <2>1, <2>2, <2>3 DEF Ever, DonesOK
    <3>2. done = chan[p] /\ chan[p] # p
      BY <2>1, <2>3, <3>1 DEF HasDone, Flushing
    <3>3. of[p] = made /\ made \in Gens /\ made \in closed
      <4>1. InBody(p) /\ at[p] \notin {"return", "signal"}
        BY <2>3 DEF InBody
      <4> QED BY <2>1, <4>1, BodyIsLast DEF Ever, ClosesOK
    <3>4. closed = 1..made
      BY <2>1, <3>3 DEF Ever, ClosesOK, Gens
    <3>5. close \in closed
      <4>1. close # 0 /\ close <= made
        BY <2>1, <3>1 DEF Ever, ClosesOK, Flushing
      <4> QED BY <2>1, <3>4, <4>1 DEF TypeOK, Refs
    <3>6. at[chan[p]] = "selected" => chan[chan[p]] \in closed
      BY <2>1, <3>1, <3>4 DEF Ever, ClosesOK
    <3> QED BY <3>1, <3>2, <3>5, <3>6 DEF WillFinish, Flushing
  <2>4. ASSUME at[p] = "await", once[of[p]] # "done"
        PROVE  \E q \in Procs \ {p} :
                 /\ of[q] = of[p] /\ InBody(q)
                 /\ at[q] = "wait" => chan[q] # p \/ p \in finished
    <3>1. of[p] \in Gens /\ once[of[p]] = "running"
      BY <2>1, <2>4 DEF Ever, BodiesOK, Went, Fresh, Befores, TypeOK
    <3>2. PICK q \in Procs : InBody(q) /\ of[q] = of[p]
      BY <2>1, <3>1 DEF Ever, BodiesOK
    <3>3. q # p
      BY <2>4, <3>2 DEF InBody
    <3>4. p \in Gens => p \in finished
      BY <2>2, <2>4 DEF Made, Flushing
    <3>5. at[q] = "wait" => chan[q] \in Gens
      BY <2>1 DEF Ever, DonesOK
    <3> QED BY <3>2, <3>3, <3>4, <3>5
  <2> QED BY <2>3, <2>4 DEF WaitsFor
<1> QED BY <1>1, InvHolds, EverHolds, PTL
=============================================================================
