------------------------- MODULE OpenHandlesProofs -------------------------
(***************************************************************************)
(* OpenHandles keeps its promises for any number of threads, paths and     *)
(* files.  ShapeInv says how far a call can be and which guard it has      *)
(* there, which makes RegistryIsExact inductive; with CopyIsAlone it gives *)
(* every path one owner, and only the owner writes at a path, so that what *)
(* CallsKnow and HandlesKeepTheirFiles say of a path is disturbed by none  *)
(* but the thread they speak of.                                           *)
(***************************************************************************)
EXTENDS OpenHandles, TLAPS

-----------------------------------------------------------------------------
(* Types and shapes.                                                       *)

\* A call that opens its catalog: in Attached mode it has the file at its path,
\* which it has made when there was none.
LEMMA OpenCatalogCall ==
    ASSUME TypeOK, NEW t \in Threads,
           CreateCatalog(t) \/ OpensCatalog(t) \/ BareCatalog(t)
    PROVE  /\ call[t] \in Calls /\ call'[t] \in Calls
           /\ call' = [call EXCEPT ![t] = call'[t]]
           /\ call[t].op \in {"create", "open", "bare"} /\ call[t].at = "catalog"
           /\ call'[t].at = IF call[t].op = "create" THEN "arrays" ELSE "stamp"
           /\ call'[t].op = call[t].op /\ call'[t].path = call[t].path
           /\ call'[t].mode = call[t].mode /\ call'[t].h5 = call[t].h5
           /\ call'[t].held = call[t].held /\ call'[t].copy = call[t].copy
           /\ \/ /\ db' = db /\ call'[t].made = call[t].made
                 /\ call'[t].db = IF call[t].mode = "Attached" THEN db[call[t].path] ELSE Absent
              \/ \E f \in Files :
                    /\ call[t].mode = "Attached"
                    /\ db' = [db EXCEPT ![call[t].path] = f]
                    /\ call'[t].db = f /\ call'[t].made = call[t].made \cup {f}
           /\ UNCHANGED <<open, h5, store>>
<1> DEFINE now == IF call[t].op = "create" THEN "arrays" ELSE "stamp"
           got == IF call[t].mode = "Attached" THEN db[call[t].path] ELSE Absent
           c == [call[t] EXCEPT !.db = got, !.at = now]
           d(f) == [call[t] EXCEPT !.db = f, !.made = call[t].made \cup {f}, !.at = now]
<1>1. PICK f \in Files : OpenCatalog(t, f, now)
  BY DEF CreateCatalog, OpensCatalog, BareCatalog, At, Unused
<1>2. /\ call[t] \in Calls /\ call[t].op \in {"create", "open", "bare"}
      /\ call[t].at = "catalog" /\ UNCHANGED <<open, h5, store>>
  BY DEF CreateCatalog, OpensCatalog, BareCatalog, At, TypeOK
<1>3. c \in Calls /\ d(f) \in Calls
  BY <1>2 DEF TypeOK, Calls
<1>4. /\ c.at = now /\ c.op = call[t].op /\ c.path = call[t].path /\ c.mode = call[t].mode
      /\ c.h5 = call[t].h5 /\ c.held = call[t].held /\ c.copy = call[t].copy
      /\ c.made = call[t].made /\ c.db = got
  BY <1>2 DEF Calls
<1>5. /\ d(f).at = now /\ d(f).op = call[t].op /\ d(f).path = call[t].path
      /\ d(f).mode = call[t].mode /\ d(f).h5 = call[t].h5 /\ d(f).held = call[t].held
      /\ d(f).copy = call[t].copy /\ d(f).made = call[t].made \cup {f} /\ d(f).db = f
  BY <1>2 DEF Calls
<1>6. \/ db' = db /\ call' = [call EXCEPT ![t] = c]
      \/ /\ call[t].mode = "Attached" /\ db' = [db EXCEPT ![call[t].path] = f]
         /\ call' = [call EXCEPT ![t] = d(f)]
  <2> DEFINE p == call[t].path
             new == call[t].mode = "Attached" /\ db[p] = Absent
  <2>1. p \in Paths
    BY <1>2 DEF Calls
  <2>2. CASE new
    BY <1>1, <1>2, <2>1, <2>2 DEF OpenCatalog, TypeOK, Calls
  <2>3. CASE ~new
    BY <1>1, <1>2, <2>1, <2>3 DEF OpenCatalog, TypeOK, Calls
  <2> QED
    BY <2>2, <2>3
<1> HIDE DEF c, d
<1> QED
  BY <1>2, <1>3, <1>4, <1>5, <1>6 DEF TypeOK

\* A step keeps the types and leaves the other threads' calls and stores alone.
LEMMA TypeStep ==
    ASSUME TypeOK, ShapeInv, NEW t \in Threads, ThreadStep(t)
    PROVE  /\ TypeOK'
           /\ \A u \in Threads \ {t} : call'[u] = call[u] /\ store'[u] = store[u]
<1>1. CASE Acquire(t)
  BY <1>1, HandleConstants, NoneIsAbsent DEF Acquire, TypeOK, Stores, Calls
<1>2. CASE Close(t)
  <2>1. store[t] \in Stores
    BY <1>2 DEF Close, TypeOK
  <2>2. CASE store[t].path = Absent
    BY <1>2, <2>2 DEF Close, TypeOK
  <2>3. CASE store[t].path # Absent
    <3> DEFINE c == [NewCall("close", "release", store[t].path, store[t].mode) EXCEPT !.held = TRUE]
    <3>1. c \in Calls
      BY <2>1, <2>3 DEF NewCall, Stores, Calls, Modes
    <3>2. call' = [call EXCEPT ![t] = c] /\ store' = [store EXCEPT ![t] = Absent]
      BY <1>2, <2>3 DEF Close
    <3> HIDE DEF c
    <3> QED
      BY <1>2, <3>1, <3>2 DEF Close, TypeOK
  <2> QED
    BY <2>2, <2>3
<1>3. CASE CloseReleases(t)
  BY <1>3, HandleConstants, NoneIsAbsent DEF CloseReleases, At, Released, TypeOK,
     Stores, Calls
<1>4. CASE CallFails(t)
  <2> DEFINE c == [call[t] EXCEPT !.op = "copy", !.at = "cleanup", !.held = FALSE]
             s == [store[t] EXCEPT !.h5 = h5[call[t].path]]
  <2>1. call[t] \in Calls
    BY <1>4 DEF CallFails, TypeOK
  <2>2. c \in Calls
    BY <2>1 DEF Calls
  <2>3. store[t] # Absent => s \in Stores
    BY <2>1 DEF TypeOK, Calls, Stores
  <2>4. call' = [call EXCEPT ![t] = c] \/ call' = [call EXCEPT ![t] = Absent]
    BY <1>4 DEF CallFails
  <2>5. store' = store \/ (store[t] # Absent /\ store' = [store EXCEPT ![t] = s])
    BY <1>4 DEF CallFails
  <2>6. open' \subseteq Paths /\ UNCHANGED <<h5, db>>
    BY <1>4 DEF CallFails, Released, TypeOK
  <2> HIDE DEF c, s
  <2> QED
    BY <2>2, <2>3, <2>4, <2>5, <2>6 DEF TypeOK
<1>5. CASE CreateInMemory(t)
  BY <1>5, HandleConstants, NoneIsAbsent DEF CreateInMemory, Idle, TypeOK, Stores,
     Calls, Modes
<1>6. CASE \E p \in Paths, mode \in Modes, op \in {"create", "replace", "open", "bare"} :
                Begin(t, op, p, mode)
  BY <1>6, HandleConstants, NoneIsAbsent DEF Begin, Idle, NewCall, TypeOK, Stores,
     Calls, Modes
<1>7. CASE CreateChecks(t)
  BY <1>7, HandleConstants, NoneIsAbsent DEF CreateChecks, At, Advance, TypeOK,
     Stores, Calls
<1>8. CASE CreateCatalog(t)
  BY <1>8, OpenCatalogCall, HandleConstants, NoneIsAbsent
     DEF TypeOK, Stores, Calls
<1>9. CASE CreateArrays(t)
  BY <1>9, HandleConstants, NoneIsAbsent DEF CreateArrays, At, Unused, TypeOK,
     Stores, Calls
<1>10. CASE StampAndReturn(t)
  BY <1>10, HandleConstants, NoneIsAbsent DEF StampAndReturn, Opens, TypeOK, Stores,
     Calls
<1>11. CASE ReplaceRemovesCatalog(t)
  BY <1>11, HandleConstants, NoneIsAbsent DEF ReplaceRemovesCatalog, At, Advance,
     TypeOK, Stores, Calls
<1>12. CASE ReplaceRemovesArrays(t)
  BY <1>12, HandleConstants, NoneIsAbsent DEF ReplaceRemovesArrays, At, NewCall,
     Released, TypeOK, Stores, Calls
<1>13. CASE OpenArrays(t)
  BY <1>13, HandleConstants, NoneIsAbsent DEF OpenArrays, At, TypeOK, Stores, Calls
<1>14. CASE OpensCatalog(t)
  BY <1>14, OpenCatalogCall, HandleConstants, NoneIsAbsent
     DEF TypeOK, Stores, Calls
<1>15. CASE BareChecks(t)
  BY <1>15, HandleConstants, NoneIsAbsent DEF BareChecks, At, Advance, TypeOK,
     Stores, Calls
<1>16. CASE BareCatalog(t)
  BY <1>16, OpenCatalogCall, HandleConstants, NoneIsAbsent
     DEF TypeOK, Stores, Calls
<1>17. CASE \E src \in Paths, p \in Paths, mode \in Modes : CopyBegin(t, src, p, mode)
  <2> PICK src \in Paths, p \in Paths, mode \in Modes : CopyBegin(t, src, p, mode)
    BY <1>17
  <2> DEFINE c == [NewCall("copy", "check", p, mode) EXCEPT !.src = src, !.copy = TRUE]
  <2>1. c \in Calls
    BY DEF NewCall, Calls, Modes
  <2>2. call' = [call EXCEPT ![t] = c] /\ UNCHANGED <<open, h5, db, store>>
    BY DEF CopyBegin
  <2> HIDE DEF c
  <2> QED
    BY <2>1, <2>2 DEF TypeOK
<1>18. CASE CopyChecks(t)
  BY <1>18, HandleConstants, NoneIsAbsent DEF CopyChecks, At, Advance, TypeOK,
     Stores, Calls
<1>19. CASE CopyArrays(t)
  BY <1>19, HandleConstants, NoneIsAbsent DEF CopyArrays, At, Unused, TypeOK,
     Stores, Calls
<1>20. CASE CopyCatalog(t)
  <2> DEFINE c == [call[t] EXCEPT !.op = "open", !.at = "acquire"]
             d(f) == [c EXCEPT !.made = @ \cup {f}]
  <2>1. call[t] \in Calls
    BY <1>20 DEF CopyCatalog, At, TypeOK
  <2>2. c \in Calls /\ \A f \in Files : d(f) \in Calls
    BY <2>1 DEF Calls
  <2>3. \/ \E f \in Files : /\ db' = [db EXCEPT ![call[t].path] = f]
                            /\ call' = [call EXCEPT ![t] = d(f)]
        \/ call' = [call EXCEPT ![t] = c] /\ UNCHANGED db
    BY <1>20 DEF CopyCatalog, Unused
  <2>4. UNCHANGED <<open, h5, store>>
    BY <1>20 DEF CopyCatalog
  <2> HIDE DEF c, d
  <2> QED
    BY <2>1, <2>2, <2>3, <2>4 DEF TypeOK
<1>21. CASE CleanupArrays(t)
  BY <1>21, HandleConstants, NoneIsAbsent DEF CleanupArrays, At, Advance, TypeOK,
     Stores, Calls
<1>22. CASE CleanupCatalog(t)
  BY <1>22, HandleConstants, NoneIsAbsent DEF CleanupCatalog, At, TypeOK, Stores,
     Calls
<1>23. CASE \E p \in Paths, op \in {"persist", "arrays"} : SaveBegin(t, op, p)
  BY <1>23, HandleConstants, NoneIsAbsent DEF SaveBegin, Idle, NewCall, TypeOK,
     Stores, Calls, Modes
<1>24. CASE SaveOwnBegin(t)
  BY <1>24, HandleConstants, NoneIsAbsent DEF SaveOwnBegin, Idle, NewCall, TypeOK,
     Stores, Calls
<1>25. CASE SaveArrays(t)
  BY <1>25, HandleConstants, NoneIsAbsent DEF SaveArrays, At, Unused, TypeOK,
     Stores, Calls
<1>26. CASE SaveCatalog(t)
  BY <1>26, HandleConstants, NoneIsAbsent DEF SaveCatalog, At, Unused, TypeOK,
     Stores, Calls
<1>27. CASE SaveReturns(t)
  <2> DEFINE s == [store[t] EXCEPT !.h5 = h5[call[t].path]]
  <2>1. call[t] \in Calls /\ store[t] \in Stores
    BY <1>27 DEF SaveReturns, At, TypeOK, ShapeInv, CallShape
  <2>2. s \in Stores
    BY <2>1 DEF TypeOK, Calls, Stores
  <2>3. store' = store \/ store' = [store EXCEPT ![t] = s]
    BY <1>27 DEF SaveReturns
  <2>4. call' = [call EXCEPT ![t] = Absent] /\ open' \subseteq Paths /\ UNCHANGED <<h5, db>>
    BY <1>27 DEF SaveReturns, Released, TypeOK
  <2> HIDE DEF s
  <2> QED
    BY <2>2, <2>3, <2>4 DEF TypeOK
<1>28. CASE BundleChecks(t)
  BY <1>28, HandleConstants, NoneIsAbsent DEF BundleChecks, At, Advance, TypeOK,
     Stores, Calls
<1>29. CASE BundleArrays(t)
  BY <1>29, HandleConstants, NoneIsAbsent DEF BundleArrays, At, Unused, TypeOK,
     Stores, Calls
<1>30. CASE PersistCatalog(t)
  BY <1>30, HandleConstants, NoneIsAbsent DEF PersistCatalog, Idle, Unused, TypeOK,
     Stores, Calls
<1>31. CASE Compact(t)
  BY <1>31, HandleConstants, NoneIsAbsent DEF Compact, Idle, Unused, TypeOK, Stores,
     Calls
<1> QED
  BY <1>1, <1>2, <1>3, <1>4, <1>5, <1>6, <1>7, <1>8, <1>9, <1>10, <1>11, <1>12,
     <1>13, <1>14, <1>15, <1>16, <1>17, <1>18, <1>19, <1>20, <1>21, <1>22, <1>23,
     <1>24, <1>25, <1>26, <1>27, <1>28, <1>29, <1>30, <1>31 DEF ThreadStep

\* open_copy goes on to open the copy: the same call, with what it copied.
LEMMA CopyCatalogCall ==
    ASSUME TypeOK, NEW t \in Threads, CopyCatalog(t)
    PROVE  /\ call[t] \in Calls /\ call[t].op = "copy" /\ call[t].at = "catalog"
           /\ call'[t].op = "open" /\ call'[t].at = "acquire" /\ call'[t].path = call[t].path
           /\ call'[t].mode = call[t].mode
           /\ call'[t].held = call[t].held /\ call'[t].copy = call[t].copy
           /\ call'[t].h5 = call[t].h5 /\ call'[t].db = call[t].db
           /\ \/ db' = db /\ call'[t].made = call[t].made
              \/ \E f \in Files : /\ db' = [db EXCEPT ![call[t].path] = f]
                                  /\ call'[t].made = call[t].made \cup {f}
           /\ UNCHANGED <<open, h5, store>>
<1> DEFINE c == [call[t] EXCEPT !.op = "open", !.at = "acquire"]
<1>1. /\ UNCHANGED <<open, h5, store>>
      /\ call[t] \in Calls /\ call[t].op = "copy" /\ call[t].at = "catalog"
  BY DEF CopyCatalog, At, TypeOK
<1>2. \/ db' = db /\ call'[t] = c
      \/ \E f \in Files : /\ db' = [db EXCEPT ![call[t].path] = f]
                          /\ call'[t] = [c EXCEPT !.made = @ \cup {f}]
  BY DEF CopyCatalog, TypeOK, Unused
<1>3. /\ c.op = "open" /\ c.at = "acquire" /\ c.path = call[t].path /\ c.mode = call[t].mode
      /\ c.held = call[t].held /\ c.copy = call[t].copy /\ c.h5 = call[t].h5 /\ c.db = call[t].db
      /\ c.made = call[t].made
      /\ c \in Calls
  BY <1>1 DEF Calls
<1> HIDE DEF c
<1> QED
  BY ZenonT(30), <1>1, <1>2, <1>3 DEF Calls

\* A failed call is over, or is an open_copy on its way to its cleanup; a store
\* being saved over itself has its file open again.
LEMMA CallFailsCall ==
    ASSUME TypeOK, NEW t \in Threads, CallFails(t)
    PROVE  /\ call[t] \in Calls /\ call[t].op # "close" /\ ~Cleaning(t)
           /\ \/ call'[t] = Absent /\ ~(call[t].copy /\ call[t].at # "check")
              \/ /\ call[t].copy /\ call[t].at # "check"
                 /\ call'[t].op = "copy" /\ call'[t].at = "cleanup" /\ call'[t].held = FALSE
                 /\ call'[t].path = call[t].path /\ call'[t].copy = call[t].copy
                 /\ call'[t].made = call[t].made
           /\ \/ store' = store /\ ~(store[t] # Absent /\ store[t].path = call[t].path)
              \/ /\ store[t] \in Stores /\ store[t].path = call[t].path
                 /\ store'[t] \in Stores
                 /\ store'[t].path = store[t].path /\ store'[t].mode = store[t].mode
                 /\ store'[t].db = store[t].db /\ store'[t].h5 = h5[call[t].path]
           /\ open' = Released(t)
           /\ UNCHANGED <<h5, db>>
<1> DEFINE c == [call[t] EXCEPT !.op = "copy", !.at = "cleanup", !.held = FALSE]
           s == [store[t] EXCEPT !.h5 = h5[call[t].path]]
<1>1. /\ call[t] \in Calls /\ call[t].op # "close" /\ ~Cleaning(t)
      /\ open' = Released(t)
      /\ UNCHANGED <<h5, db>>
  BY DEF CallFails, TypeOK
<1>2. \/ call'[t] = Absent /\ ~(call[t].copy /\ call[t].at # "check")
      \/ call[t].copy /\ call[t].at # "check" /\ call'[t] = c
  BY DEF CallFails, TypeOK
<1>3. \/ store' = store /\ ~(store[t] # Absent /\ store[t].path = call[t].path)
      \/ store[t] \in Stores /\ store[t].path = call[t].path /\ store'[t] = s
  BY DEF CallFails, TypeOK
<1>4. /\ c.op = "copy" /\ c.at = "cleanup" /\ c.held = FALSE
      /\ c.path = call[t].path /\ c.copy = call[t].copy /\ c.made = call[t].made
  BY <1>1 DEF Calls
<1>5. store[t] \in Stores => /\ s \in Stores
                             /\ s.path = store[t].path /\ s.mode = store[t].mode
                             /\ s.db = store[t].db /\ s.h5 = h5[call[t].path]
  BY <1>1 DEF Stores, Calls, TypeOK
<1> HIDE DEF c, s
<1> QED
  BY <1>1, <1>2, <1>3, <1>4, <1>5

\* A save that succeeds is over; a store saved over itself has its file open again.
LEMMA SaveReturnsCall ==
    ASSUME TypeOK, ShapeInv, NEW t \in Threads, SaveReturns(t)
    PROVE  /\ call[t] \in Calls /\ call[t].op \in {"persist", "arrays"} /\ call[t].at = "release"
           /\ store[t] \in Stores
           /\ call'[t] = Absent
           /\ \/ store' = store /\ store[t].path # call[t].path
              \/ /\ store[t].path = call[t].path
                 /\ store'[t] \in Stores
                 /\ store'[t].path = store[t].path /\ store'[t].mode = store[t].mode
                 /\ store'[t].db = store[t].db /\ store'[t].h5 = h5[call[t].path]
           /\ open' = Released(t)
           /\ UNCHANGED <<h5, db>>
<1> DEFINE s == [store[t] EXCEPT !.h5 = h5[call[t].path]]
<1>1. /\ call[t] \in Calls /\ call[t].op \in {"persist", "arrays"} /\ call[t].at = "release"
      /\ store[t] \in Stores
      /\ call'[t] = Absent
      /\ open' = Released(t)
      /\ UNCHANGED <<h5, db>>
  BY DEF SaveReturns, At, TypeOK, ShapeInv, CallShape
<1>2. \/ store' = store /\ store[t].path # call[t].path
      \/ store[t].path = call[t].path /\ store'[t] = s
  BY DEF SaveReturns, TypeOK
<1>3. /\ s \in Stores
      /\ s.path = store[t].path /\ s.mode = store[t].mode
      /\ s.db = store[t].db /\ s.h5 = h5[call[t].path]
  BY <1>1 DEF Stores, Calls, TypeOK
<1> HIDE DEF s
<1> QED
  BY <1>1, <1>2, <1>3

\* ShapeInv is kept.
LEMMA ShapeStep ==
    ASSUME TypeOK, ShapeInv, NEW t \in Threads, ThreadStep(t)
    PROVE  ShapeInv'
<1> DEFINE OK(c, s) == /\ c # Absent => CallShape(c, s)
                       /\ s # Absent /\ s.mode = "InMemory" => s.db = Absent
<1> SUFFICES OK(call'[t], store'[t])
  BY TypeStep DEF ShapeInv
<1>0. OK(call[t], store[t]) /\ call[t] \in Calls \cup {Absent} /\ store[t] \in Stores \cup {Absent}
  BY DEF ShapeInv, TypeOK
<1>1. CASE Acquire(t)
  BY <1>1, <1>0, HandleConstants, NoneIsAbsent DEF Acquire, TypeOK, CallShape,
     Stores, Calls
<1>2. CASE Close(t)
  BY <1>2, <1>0, HandleConstants, NoneIsAbsent DEF Close, Idle, NewCall, TypeOK,
     CallShape, Stores, Calls
<1>3. CASE CloseReleases(t)
  BY <1>3, <1>0, HandleConstants, NoneIsAbsent DEF CloseReleases, At, Released,
     TypeOK, CallShape, Stores, Calls
<1>4. CASE CallFails(t)
  BY <1>0, <1>4, CallFailsCall, NoneIsAbsent DEF CallShape, Cleaning, At
<1>5. CASE CreateInMemory(t)
  BY <1>5, <1>0, HandleConstants, NoneIsAbsent DEF CreateInMemory, Idle, TypeOK,
     CallShape, Stores, Calls
<1>6. CASE \E p \in Paths, mode \in Modes, op \in {"create", "replace", "open", "bare"} :
                Begin(t, op, p, mode)
  BY <1>6, <1>0, HandleConstants, NoneIsAbsent DEF Begin, Idle, NewCall, TypeOK,
     CallShape, Stores, Calls
<1>7. CASE CreateChecks(t)
  BY <1>7, <1>0, HandleConstants, NoneIsAbsent DEF CreateChecks, At, Advance,
     TypeOK, CallShape, Stores, Calls
<1>8. CASE CreateCatalog(t)
  BY <1>8, <1>0, OpenCatalogCall, HandleConstants, NoneIsAbsent
     DEF TypeOK, CallShape, Stores, Calls
<1>9. CASE CreateArrays(t)
  BY <1>9, <1>0, HandleConstants, NoneIsAbsent DEF CreateArrays, At, TypeOK,
     CallShape, Stores, Calls
<1>10. CASE StampAndReturn(t)
  BY <1>10, <1>0, HandleConstants, NoneIsAbsent DEF StampAndReturn, Opens, TypeOK,
     CallShape, Stores, Calls
<1>11. CASE ReplaceRemovesCatalog(t)
  BY <1>11, <1>0, HandleConstants, NoneIsAbsent DEF ReplaceRemovesCatalog, At,
     Advance, TypeOK, CallShape, Stores, Calls
<1>12. CASE ReplaceRemovesArrays(t)
  BY <1>12, <1>0, HandleConstants, NoneIsAbsent DEF ReplaceRemovesArrays, At,
     NewCall, Released, TypeOK, CallShape, Stores, Calls
<1>13. CASE OpenArrays(t)
  BY <1>13, <1>0, HandleConstants, NoneIsAbsent DEF OpenArrays, At, TypeOK,
     CallShape, Stores, Calls
<1>14. CASE OpensCatalog(t)
  BY <1>14, <1>0, OpenCatalogCall, HandleConstants, NoneIsAbsent
     DEF TypeOK, CallShape, Stores, Calls
<1>15. CASE BareChecks(t)
  BY <1>15, <1>0, HandleConstants, NoneIsAbsent DEF BareChecks, At, Advance, TypeOK,
     CallShape, Stores, Calls
<1>16. CASE BareCatalog(t)
  BY <1>16, <1>0, OpenCatalogCall, HandleConstants, NoneIsAbsent
     DEF TypeOK, CallShape, Stores, Calls
<1>17. CASE \E src \in Paths, p \in Paths, mode \in Modes : CopyBegin(t, src, p, mode)
  BY <1>17, <1>0, HandleConstants, NoneIsAbsent DEF CopyBegin, Idle, NewCall,
     TypeOK, CallShape, Stores, Calls
<1>18. CASE CopyChecks(t)
  BY <1>18, <1>0, HandleConstants, NoneIsAbsent DEF CopyChecks, At, Advance, TypeOK,
     CallShape, Stores, Calls
<1>19. CASE CopyArrays(t)
  BY <1>19, <1>0, HandleConstants, NoneIsAbsent DEF CopyArrays, At, TypeOK,
     CallShape, Stores, Calls
<1>20. CASE CopyCatalog(t)
  BY <1>0, <1>20, CopyCatalogCall, NoneIsAbsent DEF CallShape
<1>21. CASE CleanupArrays(t)
  BY <1>21, <1>0, HandleConstants, NoneIsAbsent DEF CleanupArrays, At, Advance,
     TypeOK, CallShape, Stores, Calls
<1>22. CASE CleanupCatalog(t)
  BY <1>22, <1>0, HandleConstants, NoneIsAbsent DEF CleanupCatalog, At, TypeOK,
     CallShape, Stores, Calls
<1>23. CASE \E p \in Paths, op \in {"persist", "arrays"} : SaveBegin(t, op, p)
  BY <1>23, <1>0, HandleConstants, NoneIsAbsent DEF SaveBegin, Idle, NewCall,
     TypeOK, CallShape, Stores, Calls
<1>24. CASE SaveOwnBegin(t)
  BY <1>24, <1>0, HandleConstants, NoneIsAbsent DEF SaveOwnBegin, Idle, NewCall,
     TypeOK, CallShape, Stores, Calls
<1>25. CASE SaveArrays(t)
  BY <1>25, <1>0, HandleConstants, NoneIsAbsent DEF SaveArrays, At, TypeOK,
     CallShape, Stores, Calls
<1>26. CASE SaveCatalog(t)
  BY <1>26, <1>0, HandleConstants, NoneIsAbsent DEF SaveCatalog, At, TypeOK,
     CallShape, Stores, Calls
<1>27. CASE SaveReturns(t)
  BY <1>0, <1>27, SaveReturnsCall, NoneIsAbsent
<1>28. CASE BundleChecks(t)
  BY <1>28, <1>0, HandleConstants, NoneIsAbsent DEF BundleChecks, At, Advance,
     TypeOK, CallShape, Stores, Calls
<1>29. CASE BundleArrays(t)
  BY <1>29, <1>0, HandleConstants, NoneIsAbsent DEF BundleArrays, At, TypeOK,
     CallShape, Stores, Calls
<1>30. CASE PersistCatalog(t)
  BY <1>30, <1>0, HandleConstants, NoneIsAbsent DEF PersistCatalog, Idle, TypeOK,
     CallShape, Stores, Calls
<1>31. CASE Compact(t)
  BY <1>31, <1>0, HandleConstants, NoneIsAbsent DEF Compact, Idle, TypeOK,
     CallShape, Stores, Calls
<1> QED
  BY <1>1, <1>2, <1>3, <1>4, <1>5, <1>6, <1>7, <1>8, <1>9, <1>10, <1>11, <1>12,
     <1>13, <1>14, <1>15, <1>16, <1>17, <1>18, <1>19, <1>20, <1>21, <1>22, <1>23,
     <1>24, <1>25, <1>26, <1>27, <1>28, <1>29, <1>30, <1>31 DEF ThreadStep

-----------------------------------------------------------------------------
(* The registry.                                                           *)

Holds(t, p) == StoreHolds(t, p) \/ CallHolds(t, p)

\* A step leaves what its thread answers for and the registry alone, adds a path to
\* both, or takes one from both.
LEMMA Registrations ==
    ASSUME TypeOK, ShapeInv, NEW t \in Threads, ThreadStep(t)
    PROVE  \/ /\ open' = open
              /\ \A p \in Paths : Holds(t, p)' <=> Holds(t, p)
           \/ /\ call[t].path \in Paths \ open
              /\ open' = open \cup {call[t].path}
              /\ \A p \in Paths : Holds(t, p)' <=> Holds(t, p) \/ p = call[t].path
           \/ /\ Holds(t, call[t].path)
              /\ open' = open \ {call[t].path}
              /\ \A p \in Paths : Holds(t, p)' <=> Holds(t, p) /\ p # call[t].path
<1>0. /\ call[t] # Absent => call[t] \in Calls /\ CallShape(call[t], store[t])
      /\ store[t] # Absent => store[t] \in Stores
  BY DEF ShapeInv, TypeOK
<1>1. CASE Acquire(t)
  BY <1>1, <1>0, HandleConstants, NoneIsAbsent DEF Acquire, TypeOK, Holds,
     StoreHolds, CallHolds, CallShape, Stores, Calls
<1>2. CASE Close(t)
  <2> DEFINE c == [NewCall("close", "release", store[t].path, store[t].mode) EXCEPT !.held = TRUE]
  <2>1. call[t] = Absent /\ store[t] \in Stores /\ store'[t] = Absent /\ open' = open
    BY <1>0, <1>2 DEF Close, Idle, TypeOK
  <2>2. CASE store[t].path = Absent
    BY <1>2, <2>1, <2>2, HandleConstants DEF Close, Holds, StoreHolds, CallHolds
  <2>3. CASE store[t].path # Absent
    <3>1. call'[t] = c
      BY <1>2, <2>3 DEF Close, TypeOK
    <3>2. c \in Calls /\ c.held /\ c.path = store[t].path
      BY <2>1, <2>3 DEF NewCall, Stores, Calls
    <3> HIDE DEF c
    <3> QED
      BY <2>1, <3>1, <3>2, NoneIsAbsent DEF Holds, StoreHolds, CallHolds
  <2> QED
    BY <2>2, <2>3
<1>3. CASE CloseReleases(t)
  BY <1>3, <1>0, HandleConstants, NoneIsAbsent DEF CloseReleases, At, Released,
     TypeOK, Holds, StoreHolds, CallHolds, CallShape, Stores, Calls
<1>4. CASE CallFails(t)
  <2>1. /\ call[t] \in Calls /\ call[t] # Absent /\ open' = Released(t)
        /\ ~CallHolds(t, call[t].path)' /\ \A p \in Paths : ~CallHolds(t, p)'
    BY <1>4, CallFailsCall, NoneIsAbsent DEF CallHolds
  <2>2. \A p \in Paths : StoreHolds(t, p)' <=> StoreHolds(t, p)
    BY <1>4, CallFailsCall, NoneIsAbsent DEF StoreHolds
  <2>3. CASE call[t].held
    <3>1. \A p \in Paths : CallHolds(t, p) <=> p = call[t].path
      BY <2>1, <2>3 DEF CallHolds
    <3>2. ~StoreHolds(t, call[t].path)
      BY <1>0, <2>1, <2>3 DEF StoreHolds, CallShape
    <3>3. open' = open \ {call[t].path} /\ call[t].path \in Paths
      BY <2>1, <2>3 DEF Released, Calls
    <3> QED
      BY <2>1, <2>2, <3>1, <3>2, <3>3 DEF Holds
  <2>4. CASE ~call[t].held
    BY <2>1, <2>2, <2>4 DEF Holds, CallHolds, Released
  <2> QED
    BY <2>3, <2>4
<1>5. CASE CreateInMemory(t)
  BY <1>5, <1>0, HandleConstants, NoneIsAbsent DEF CreateInMemory, Idle, TypeOK,
     Holds, StoreHolds, CallHolds, CallShape, Stores, Calls
<1>6. CASE \E p \in Paths, mode \in Modes, op \in {"create", "replace", "open", "bare"} :
                Begin(t, op, p, mode)
  BY <1>6, <1>0, HandleConstants, NoneIsAbsent DEF Begin, Idle, NewCall, TypeOK,
     Holds, StoreHolds, CallHolds, CallShape, Stores, Calls
<1>7. CASE CreateChecks(t)
  BY <1>7, <1>0, HandleConstants, NoneIsAbsent DEF CreateChecks, At, Advance,
     TypeOK, Holds, StoreHolds, CallHolds, CallShape, Stores, Calls
<1>8. CASE CreateCatalog(t)
  BY <1>8, <1>0, OpenCatalogCall, HandleConstants, NoneIsAbsent
     DEF TypeOK, Holds, StoreHolds, CallHolds, CallShape, Stores, Calls
<1>9. CASE CreateArrays(t)
  BY <1>9, <1>0, HandleConstants, NoneIsAbsent DEF CreateArrays, At, TypeOK, Holds,
     StoreHolds, CallHolds, CallShape, Stores, Calls
<1>10. CASE StampAndReturn(t)
  BY <1>10, <1>0, HandleConstants, NoneIsAbsent DEF StampAndReturn, Opens, TypeOK,
     Holds, StoreHolds, CallHolds, CallShape, Stores, Calls
<1>11. CASE ReplaceRemovesCatalog(t)
  BY <1>11, <1>0, HandleConstants, NoneIsAbsent DEF ReplaceRemovesCatalog, At,
     Advance, TypeOK, Holds, StoreHolds, CallHolds, CallShape, Stores, Calls
<1>12. CASE ReplaceRemovesArrays(t)
  BY <1>12, <1>0, HandleConstants, NoneIsAbsent DEF ReplaceRemovesArrays, At,
     NewCall, Released, TypeOK, Holds, StoreHolds, CallHolds, CallShape, Stores,
     Calls
<1>13. CASE OpenArrays(t)
  BY <1>13, <1>0, HandleConstants, NoneIsAbsent DEF OpenArrays, At, TypeOK, Holds,
     StoreHolds, CallHolds, CallShape, Stores, Calls
<1>14. CASE OpensCatalog(t)
  BY <1>14, <1>0, OpenCatalogCall, HandleConstants, NoneIsAbsent
     DEF TypeOK, Holds, StoreHolds, CallHolds, CallShape, Stores, Calls
<1>15. CASE BareChecks(t)
  BY <1>15, <1>0, HandleConstants, NoneIsAbsent DEF BareChecks, At, Advance, TypeOK,
     Holds, StoreHolds, CallHolds, CallShape, Stores, Calls
<1>16. CASE BareCatalog(t)
  BY <1>16, <1>0, OpenCatalogCall, HandleConstants, NoneIsAbsent
     DEF TypeOK, Holds, StoreHolds, CallHolds, CallShape, Stores, Calls
<1>17. CASE \E src \in Paths, p \in Paths, mode \in Modes : CopyBegin(t, src, p, mode)
  BY <1>17, <1>0, HandleConstants, NoneIsAbsent DEF CopyBegin, Idle, NewCall,
     TypeOK, Holds, StoreHolds, CallHolds, CallShape, Stores, Calls
<1>18. CASE CopyChecks(t)
  BY <1>18, <1>0, HandleConstants, NoneIsAbsent DEF CopyChecks, At, Advance, TypeOK,
     Holds, StoreHolds, CallHolds, CallShape, Stores, Calls
<1>19. CASE CopyArrays(t)
  BY <1>19, <1>0, HandleConstants, NoneIsAbsent DEF CopyArrays, At, TypeOK, Holds,
     StoreHolds, CallHolds, CallShape, Stores, Calls
<1>20. CASE CopyCatalog(t)
  <2>1. ~call[t].held /\ call'[t].held = call[t].held /\ UNCHANGED <<open, store>>
    BY <1>0, <1>20, CopyCatalogCall, NoneIsAbsent DEF CallShape
  <2> QED
    BY <2>1 DEF Holds, StoreHolds, CallHolds
<1>21. CASE CleanupArrays(t)
  BY <1>21, <1>0, HandleConstants, NoneIsAbsent DEF CleanupArrays, At, Advance,
     TypeOK, Holds, StoreHolds, CallHolds, CallShape, Stores, Calls
<1>22. CASE CleanupCatalog(t)
  BY <1>22, <1>0, HandleConstants, NoneIsAbsent DEF CleanupCatalog, At, TypeOK,
     Holds, StoreHolds, CallHolds, CallShape, Stores, Calls
<1>23. CASE \E p \in Paths, op \in {"persist", "arrays"} : SaveBegin(t, op, p)
  BY <1>23, <1>0, HandleConstants, NoneIsAbsent DEF SaveBegin, Idle, NewCall,
     TypeOK, Holds, StoreHolds, CallHolds, CallShape, Stores, Calls
<1>24. CASE SaveOwnBegin(t)
  BY <1>24, <1>0, HandleConstants, NoneIsAbsent DEF SaveOwnBegin, Idle, NewCall,
     TypeOK, Holds, StoreHolds, CallHolds, CallShape, Stores, Calls
<1>25. CASE SaveArrays(t)
  BY <1>25, <1>0, HandleConstants, NoneIsAbsent DEF SaveArrays, At, TypeOK, Holds,
     StoreHolds, CallHolds, CallShape, Stores, Calls
<1>26. CASE SaveCatalog(t)
  BY <1>26, <1>0, HandleConstants, NoneIsAbsent DEF SaveCatalog, At, TypeOK, Holds,
     StoreHolds, CallHolds, CallShape, Stores, Calls
<1>27. CASE SaveReturns(t)
  <2>1. /\ call[t] \in Calls /\ call[t] # Absent /\ open' = Released(t)
        /\ ~CallHolds(t, call[t].path)' /\ \A p \in Paths : ~CallHolds(t, p)'
    BY <1>27, SaveReturnsCall, NoneIsAbsent DEF CallHolds
  <2>2. \A p \in Paths : StoreHolds(t, p)' <=> StoreHolds(t, p)
    BY <1>27, SaveReturnsCall, NoneIsAbsent DEF StoreHolds
  <2>3. CASE call[t].held
    <3>1. \A p \in Paths : CallHolds(t, p) <=> p = call[t].path
      BY <2>1, <2>3 DEF CallHolds
    <3>2. ~StoreHolds(t, call[t].path)
      BY <1>0, <2>1, <2>3 DEF StoreHolds, CallShape
    <3>3. open' = open \ {call[t].path} /\ call[t].path \in Paths
      BY <2>1, <2>3 DEF Released, Calls
    <3> QED
      BY <2>1, <2>2, <3>1, <3>2, <3>3 DEF Holds
  <2>4. CASE ~call[t].held
    BY <2>1, <2>2, <2>4 DEF Holds, CallHolds, Released
  <2> QED
    BY <2>3, <2>4
<1>28. CASE BundleChecks(t)
  BY <1>28, <1>0, HandleConstants, NoneIsAbsent DEF BundleChecks, At, Advance,
     TypeOK, Holds, StoreHolds, CallHolds, CallShape, Stores, Calls
<1>29. CASE BundleArrays(t)
  BY <1>29, <1>0, HandleConstants, NoneIsAbsent DEF BundleArrays, At, TypeOK, Holds,
     StoreHolds, CallHolds, CallShape, Stores, Calls
<1>30. CASE PersistCatalog(t)
  BY <1>30, <1>0, HandleConstants, NoneIsAbsent DEF PersistCatalog, Idle, TypeOK,
     Holds, StoreHolds, CallHolds, CallShape, Stores, Calls
<1>31. CASE Compact(t)
  <2>1. /\ call' = call /\ open' = open
        /\ store[t] \in Stores
        /\ \E f \in Files : store'[t] = [store[t] EXCEPT !.h5 = f]
    BY <1>0, <1>31 DEF Compact, Unused, TypeOK
  <2>2. store'[t] \in Stores /\ store'[t].path = store[t].path
    BY <2>1 DEF Stores
  <2> QED
    BY <2>1, <2>2, NoneIsAbsent DEF Holds, StoreHolds, CallHolds
<1> QED
  BY <1>1, <1>2, <1>3, <1>4, <1>5, <1>6, <1>7, <1>8, <1>9, <1>10, <1>11, <1>12,
     <1>13, <1>14, <1>15, <1>16, <1>17, <1>18, <1>19, <1>20, <1>21, <1>22, <1>23,
     <1>24, <1>25, <1>26, <1>27, <1>28, <1>29, <1>30, <1>31 DEF ThreadStep

\* RegistryIsExact is kept: a step registers a path nobody holds for the thread
\* that now does, gives back one its thread held, or changes neither side.
LEMMA RegistryStep ==
    ASSUME TypeOK, ShapeInv, RegistryIsExact, NEW t \in Threads, ThreadStep(t)
    PROVE  RegistryIsExact'
<1>1. /\ TypeOK'
      /\ \A u \in Threads \ {t}, p \in Paths : Holds(u, p)' <=> Holds(u, p)
  BY TypeStep DEF Holds, StoreHolds, CallHolds
<1>2. ShapeInv'
  BY ShapeStep
<1>3. /\ open \subseteq Paths
      /\ \A p \in Paths : p \in open <=> \E u \in Threads : Holds(u, p)
      /\ \A u \in Threads, v \in Threads, p \in Paths : Holds(u, p) /\ Holds(v, p) => u = v
  BY DEF RegistryIsExact, TypeOK, Holds
<1>4. /\ open' \subseteq Paths
      /\ \A p \in Paths : p \in open' <=> \E u \in Threads : Holds(u, p)'
      /\ \A u \in Threads, v \in Threads, p \in Paths : Holds(u, p)' /\ Holds(v, p)' => u = v
  <2>1. CASE /\ open' = open
             /\ \A p \in Paths : Holds(t, p)' <=> Holds(t, p)
    BY <1>1, <1>3, <2>1
  <2>2. CASE /\ call[t].path \in Paths \ open
             /\ open' = open \cup {call[t].path}
             /\ \A p \in Paths : Holds(t, p)' <=> Holds(t, p) \/ p = call[t].path
    BY <1>1, <1>3, <2>2
  <2>3. CASE /\ Holds(t, call[t].path)
             /\ open' = open \ {call[t].path}
             /\ \A p \in Paths : Holds(t, p)' <=> Holds(t, p) /\ p # call[t].path
    BY <1>1, <1>3, <2>3
  <2> QED
    BY <2>1, <2>2, <2>3, Registrations
<1>5. \A u \in Threads, p \in Paths : ~(StoreHolds(u, p)' /\ CallHolds(u, p)')
  BY <1>2 DEF ShapeInv, CallShape, StoreHolds, CallHolds
<1> QED
  BY <1>4, <1>5 DEF RegistryIsExact, Holds

-----------------------------------------------------------------------------
(* Who may write at a path, while nobody else uses the destination of a    *)
(* running open_copy.                                                      *)

Owns(t, p) ==
    \/ Holds(t, p)
    \/ call[t] # Absent /\ call[t].copy /\ call[t].path = p

\* A thread comes to a path through its own store or call, or is refused one that
\* is being copied to, and a copy starts where nobody is.
LEMMA Moves ==
    ASSUME TypeOK, ShapeInv, PrivateCopies, NEW t \in Threads, ThreadStep(t)
    PROVE  /\ call'[t] # Absent /\ call'[t].copy =>
                 \/ call[t] # Absent /\ call[t].copy /\ call'[t].path = call[t].path
                 \/ ~InUse(call'[t].path)
           /\ call'[t] # Absent =>
                 \/ call[t] # Absent /\ call'[t].path = call[t].path
                 \/ store[t] # Absent /\ call'[t].path = store[t].path
                 \/ ~CopyingTo(call'[t].path)
           /\ store'[t] # Absent =>
                 \/ store'[t].path = Absent
                 \/ store[t] # Absent /\ store'[t].path = store[t].path
                 \/ call[t] # Absent /\ store'[t].path = call[t].path
<1>0. /\ call[t] # Absent => call[t] \in Calls
      /\ store[t] # Absent => store[t] \in Stores
      /\ call[t] # Absent /\ store[t] # Absent => call[t].op \in {"persist", "arrays"} /\ ~call[t].copy
  BY DEF ShapeInv, TypeOK, CallShape
<1>1. CASE Acquire(t)
  BY <1>1, <1>0, NoneIsAbsent DEF Acquire, TypeOK, Stores, Calls
<1>2. CASE Close(t)
  BY <1>2, <1>0, NoneIsAbsent DEF Close, Idle, NewCall, TypeOK, Stores, Calls
<1>3. CASE CloseReleases(t)
  BY <1>3, <1>0, NoneIsAbsent DEF CloseReleases, At, Released, TypeOK, Stores, Calls
<1>4. CASE CallFails(t)
  BY <1>0, <1>4, CallFailsCall, NoneIsAbsent
<1>5. CASE CreateInMemory(t)
  BY <1>5, <1>0, NoneIsAbsent DEF CreateInMemory, Idle, TypeOK, Stores, Calls
<1>6. CASE \E p \in Paths, mode \in Modes, op \in {"create", "replace", "open", "bare"} :
                Begin(t, op, p, mode)
  BY <1>6, <1>0, NoneIsAbsent DEF Begin, MayTarget,
     Idle, NewCall, TypeOK, Stores, Calls
<1>7. CASE CreateChecks(t)
  BY <1>7, <1>0, NoneIsAbsent DEF CreateChecks, At, Advance, TypeOK, Stores, Calls
<1>8. CASE CreateCatalog(t)
  BY <1>8, <1>0, NoneIsAbsent DEF CreateCatalog, At, OpenCatalog, TypeOK, Stores,
     Calls
<1>9. CASE CreateArrays(t)
  BY <1>9, <1>0, NoneIsAbsent DEF CreateArrays, At, TypeOK, Stores, Calls
<1>10. CASE StampAndReturn(t)
  BY <1>10, <1>0, NoneIsAbsent DEF StampAndReturn, Opens, TypeOK, Stores, Calls
<1>11. CASE ReplaceRemovesCatalog(t)
  BY <1>11, <1>0, NoneIsAbsent DEF ReplaceRemovesCatalog, At, Advance, TypeOK,
     Stores, Calls
<1>12. CASE ReplaceRemovesArrays(t)
  BY <1>12, <1>0, NoneIsAbsent DEF ReplaceRemovesArrays, At, NewCall, Released,
     TypeOK, Stores, Calls
<1>13. CASE OpenArrays(t)
  BY <1>13, <1>0, NoneIsAbsent DEF OpenArrays, At, TypeOK, Stores, Calls
<1>14. CASE OpensCatalog(t)
  BY <1>14, <1>0, NoneIsAbsent DEF OpensCatalog, At, OpenCatalog, TypeOK, Stores,
     Calls
<1>15. CASE BareChecks(t)
  BY <1>15, <1>0, NoneIsAbsent DEF BareChecks, At, Advance, TypeOK, Stores, Calls
<1>16. CASE BareCatalog(t)
  BY <1>16, <1>0, NoneIsAbsent DEF BareCatalog, At, OpenCatalog, TypeOK, Stores,
     Calls
<1>17. CASE \E src \in Paths, p \in Paths, mode \in Modes : CopyBegin(t, src, p, mode)
  <2> PICK src \in Paths, p \in Paths, mode \in Modes : CopyBegin(t, src, p, mode)
    BY <1>17
  <2>1. ~InUse(p) /\ call'[t].path = p /\ store' = store
    BY DEF CopyBegin, TypeOK, NewCall
  <2>2. ~CopyingTo(p)
    BY <2>1 DEF InUse, CopyingTo
  <2> QED
    BY <2>1, <2>2
<1>18. CASE CopyChecks(t)
  BY <1>18, <1>0, NoneIsAbsent DEF CopyChecks, At, Advance, TypeOK, Stores, Calls
<1>19. CASE CopyArrays(t)
  BY <1>19, <1>0, NoneIsAbsent DEF CopyArrays, At, TypeOK, Stores, Calls
<1>20. CASE CopyCatalog(t)
  BY <1>0, <1>20, CopyCatalogCall, NoneIsAbsent
<1>21. CASE CleanupArrays(t)
  BY <1>21, <1>0, NoneIsAbsent DEF CleanupArrays, At, Advance, TypeOK, Stores, Calls
<1>22. CASE CleanupCatalog(t)
  BY <1>22, <1>0, NoneIsAbsent DEF CleanupCatalog, At, TypeOK, Stores, Calls
<1>23. CASE \E p \in Paths, op \in {"persist", "arrays"} : SaveBegin(t, op, p)
  BY <1>23, <1>0, NoneIsAbsent DEF SaveBegin,
     MayTarget, Idle, NewCall, TypeOK, Stores, Calls
<1>24. CASE SaveOwnBegin(t)
  BY <1>24, <1>0, NoneIsAbsent DEF SaveOwnBegin, Idle, NewCall, TypeOK, Stores,
     Calls
<1>25. CASE SaveArrays(t)
  BY <1>25, <1>0, NoneIsAbsent DEF SaveArrays, At, TypeOK, Stores, Calls
<1>26. CASE SaveCatalog(t)
  BY <1>26, <1>0, NoneIsAbsent DEF SaveCatalog, At, TypeOK, Stores, Calls
<1>27. CASE SaveReturns(t)
  BY <1>0, <1>27, SaveReturnsCall, NoneIsAbsent
<1>28. CASE BundleChecks(t)
  BY <1>28, <1>0, NoneIsAbsent DEF BundleChecks, At, Advance, TypeOK, Stores, Calls
<1>29. CASE BundleArrays(t)
  BY <1>29, <1>0, NoneIsAbsent DEF BundleArrays, At, TypeOK, Stores, Calls
<1>30. CASE PersistCatalog(t)
  BY <1>30, <1>0, NoneIsAbsent DEF PersistCatalog, Idle, TypeOK, Stores, Calls
<1>31. CASE Compact(t)
  BY <1>31, <1>0, NoneIsAbsent DEF Compact, Idle, TypeOK, Stores, Calls
<1> QED
  BY <1>1, <1>2, <1>3, <1>4, <1>5, <1>6, <1>7, <1>8, <1>9, <1>10, <1>11, <1>12,
     <1>13, <1>14, <1>15, <1>16, <1>17, <1>18, <1>19, <1>20, <1>21, <1>22, <1>23,
     <1>24, <1>25, <1>26, <1>27, <1>28, <1>29, <1>30, <1>31 DEF ThreadStep

\* CopyIsAlone is kept.
LEMMA AloneStep ==
    ASSUME TypeOK, ShapeInv, PrivateCopies, CopyIsAlone, NEW t \in Threads, ThreadStep(t)
    PROVE  CopyIsAlone'
<1> SUFFICES ASSUME NEW a \in Threads, NEW b \in Threads, a # b,
                    call'[a] # Absent, call'[a].copy
             PROVE  /\ call'[b] # Absent => call'[b].path # call'[a].path
                    /\ store'[b] # Absent => store'[b].path # call'[a].path
  BY DEF CopyIsAlone
<1>1. \A u \in Threads \ {t} : call'[u] = call[u] /\ store'[u] = store[u]
  BY TypeStep
<1>2. CASE a = t
  BY <1>1, <1>2, Moves DEF CopyIsAlone, InUse
<1>3. CASE b = t
  <2>1. call[a] # Absent /\ call[a].copy /\ call'[a] = call[a] /\ call[a] \in Calls
    BY <1>1, <1>3 DEF TypeOK
  <2>2. CopyingTo(call[a].path) /\ call[a].path # Absent
    BY <2>1, HandleConstants DEF CopyingTo, Calls
  <2> QED
    BY <1>3, <2>1, <2>2, Moves DEF CopyIsAlone
<1>4. CASE a # t /\ b # t
  BY <1>1, <1>4 DEF CopyIsAlone
<1> QED
  BY <1>2, <1>3, <1>4

\* No two threads own one path.
LEMMA OneOwner ==
    ASSUME RegistryIsExact, CopyIsAlone, NEW t \in Threads, NEW u \in Threads,
           NEW p \in Paths, Owns(t, p), Owns(u, p)
    PROVE  t = u
  BY DEF Owns, Holds, StoreHolds, CallHolds, RegistryIsExact, CopyIsAlone

\* A step writes, replaces or removes files only at a path its thread owns.
LEMMA Writes ==
    ASSUME TypeOK, ShapeInv, NEW t \in Threads, ThreadStep(t), NEW q \in Paths, ~Owns(t, q)
    PROVE  h5'[q] = h5[q] /\ db'[q] = db[q]
<1>0. /\ call[t] # Absent => call[t] \in Calls /\ CallShape(call[t], store[t])
      /\ store[t] # Absent => store[t] \in Stores
  BY DEF ShapeInv, TypeOK
<1>1. CASE Acquire(t)
  BY <1>1, <1>0 DEF Acquire, TypeOK, Owns, Holds, StoreHolds, CallHolds, CallShape,
     Calls
<1>2. CASE Close(t)
  BY <1>2, <1>0 DEF Close, Idle, TypeOK, Owns, Holds, StoreHolds, CallHolds,
     CallShape, Calls
<1>3. CASE CloseReleases(t)
  BY <1>3, <1>0 DEF CloseReleases, At, Released, TypeOK, Owns, Holds, StoreHolds,
     CallHolds, CallShape, Calls
<1>4. CASE CallFails(t)
  BY <1>4, CallFailsCall
<1>5. CASE CreateInMemory(t)
  BY <1>5, <1>0 DEF CreateInMemory, Idle, TypeOK, Owns, Holds, StoreHolds,
     CallHolds, CallShape, Calls
<1>6. CASE \E p \in Paths, mode \in Modes, op \in {"create", "replace", "open", "bare"} :
                Begin(t, op, p, mode)
  BY <1>6, <1>0 DEF Begin, Idle, TypeOK, Owns, Holds, StoreHolds, CallHolds,
     CallShape, Calls
<1>7. CASE CreateChecks(t)
  BY <1>7, <1>0 DEF CreateChecks, At, Advance, TypeOK, Owns, Holds, StoreHolds,
     CallHolds, CallShape, Calls
<1>8. CASE CreateCatalog(t)
  BY <1>8, <1>0 DEF CreateCatalog, At, OpenCatalog, TypeOK, Owns, Holds, StoreHolds,
     CallHolds, CallShape, Calls
<1>9. CASE CreateArrays(t)
  BY <1>9, <1>0 DEF CreateArrays, At, TypeOK, Owns, Holds, StoreHolds, CallHolds,
     CallShape, Calls
<1>10. CASE StampAndReturn(t)
  BY <1>10, <1>0 DEF StampAndReturn, TypeOK, Owns, Holds, StoreHolds, CallHolds,
     CallShape, Calls
<1>11. CASE ReplaceRemovesCatalog(t)
  BY <1>11, <1>0 DEF ReplaceRemovesCatalog, At, Advance, TypeOK, Owns, Holds,
     StoreHolds, CallHolds, CallShape, Calls
<1>12. CASE ReplaceRemovesArrays(t)
  BY <1>12, <1>0 DEF ReplaceRemovesArrays, At, Released, TypeOK, Owns, Holds,
     StoreHolds, CallHolds, CallShape, Calls
<1>13. CASE OpenArrays(t)
  BY <1>13, <1>0 DEF OpenArrays, At, TypeOK, Owns, Holds, StoreHolds, CallHolds,
     CallShape, Calls
<1>14. CASE OpensCatalog(t)
  BY <1>14, <1>0 DEF OpensCatalog, At, OpenCatalog, TypeOK, Owns, Holds, StoreHolds,
     CallHolds, CallShape, Calls
<1>15. CASE BareChecks(t)
  BY <1>15, <1>0 DEF BareChecks, At, Advance, TypeOK, Owns, Holds, StoreHolds,
     CallHolds, CallShape, Calls
<1>16. CASE BareCatalog(t)
  BY <1>16, <1>0 DEF BareCatalog, At, OpenCatalog, TypeOK, Owns, Holds, StoreHolds,
     CallHolds, CallShape, Calls
<1>17. CASE \E src \in Paths, p \in Paths, mode \in Modes : CopyBegin(t, src, p, mode)
  BY <1>17, <1>0 DEF CopyBegin, Idle, TypeOK, Owns, Holds, StoreHolds, CallHolds,
     CallShape, Calls
<1>18. CASE CopyChecks(t)
  BY <1>18, <1>0 DEF CopyChecks, At, Advance, TypeOK, Owns, Holds, StoreHolds,
     CallHolds, CallShape, Calls
<1>19. CASE CopyArrays(t)
  BY <1>19, <1>0 DEF CopyArrays, At, TypeOK, Owns, Holds, StoreHolds, CallHolds,
     CallShape, Calls
<1>20. CASE CopyCatalog(t)
  BY <1>20, <1>0 DEF CopyCatalog, At, TypeOK, Owns, Holds, StoreHolds, CallHolds,
     CallShape, Calls
<1>21. CASE CleanupArrays(t)
  BY <1>21, <1>0 DEF CleanupArrays, At, Advance, TypeOK, Owns, Holds, StoreHolds,
     CallHolds, CallShape, Calls
<1>22. CASE CleanupCatalog(t)
  BY <1>22, <1>0 DEF CleanupCatalog, At, TypeOK, Owns, Holds, StoreHolds, CallHolds,
     CallShape, Calls
<1>23. CASE \E p \in Paths, op \in {"persist", "arrays"} : SaveBegin(t, op, p)
  BY <1>23, <1>0 DEF SaveBegin, Idle, TypeOK, Owns, Holds, StoreHolds, CallHolds,
     CallShape, Calls
<1>24. CASE SaveOwnBegin(t)
  BY <1>24, <1>0 DEF SaveOwnBegin, Idle, TypeOK, Owns, Holds, StoreHolds, CallHolds,
     CallShape, Calls
<1>25. CASE SaveArrays(t)
  BY <1>25, <1>0 DEF SaveArrays, At, TypeOK, Owns, Holds, StoreHolds, CallHolds,
     CallShape, Calls
<1>26. CASE SaveCatalog(t)
  BY <1>26, <1>0 DEF SaveCatalog, At, TypeOK, Owns, Holds, StoreHolds, CallHolds,
     CallShape, Calls
<1>27. CASE SaveReturns(t)
  BY <1>27, SaveReturnsCall
<1>28. CASE BundleChecks(t)
  BY <1>28, <1>0 DEF BundleChecks, At, Advance, TypeOK, Owns, Holds, StoreHolds,
     CallHolds, CallShape, Calls
<1>29. CASE BundleArrays(t)
  BY <1>29, <1>0 DEF BundleArrays, At, TypeOK, Owns, Holds, StoreHolds, CallHolds,
     CallShape, Calls
<1>30. CASE PersistCatalog(t)
  BY <1>30, <1>0 DEF PersistCatalog, Idle, TypeOK, Owns, Holds, StoreHolds,
     CallHolds, CallShape, Calls
<1>31. CASE Compact(t)
  BY <1>31, <1>0 DEF Compact, Idle, TypeOK, Owns, Holds, StoreHolds, CallHolds,
     CallShape, Calls
<1> QED
  BY <1>1, <1>2, <1>3, <1>4, <1>5, <1>6, <1>7, <1>8, <1>9, <1>10, <1>11, <1>12,
     <1>13, <1>14, <1>15, <1>16, <1>17, <1>18, <1>19, <1>20, <1>21, <1>22, <1>23,
     <1>24, <1>25, <1>26, <1>27, <1>28, <1>29, <1>30, <1>31 DEF ThreadStep

\* What the threads know of their files is kept: a step disturbs only what its own
\* thread knows, and corrects that.
LEMMA FilesStep ==
    ASSUME TypeOK, ShapeInv, RegistryIsExact, CopyIsAlone, CallsKnow, HandlesKeepTheirFiles,
           NEW t \in Threads, ThreadStep(t)
    PROVE  CallsKnow' /\ HandlesKeepTheirFiles'
<1> DEFINE Kept(u) == store[u] # Absent /\ store[u].path # Absent =>
                         /\ store[u].h5 # Absent => h5[store[u].path] = store[u].h5
                         /\ store[u].db # Absent => db[store[u].path] = store[u].db
<1> DEFINE Knows(u) == call[u] # Absent => CallKnows(call[u])
<1>1. ASSUME NEW u \in Threads \ {t}
      PROVE  Kept(u)' /\ Knows(u)'
  <2>1. call'[u] = call[u] /\ store'[u] = store[u]
    BY TypeStep
  <2>2. \A p \in Paths : Owns(u, p) => h5'[p] = h5[p] /\ db'[p] = db[p]
    BY OneOwner, Writes
  <2>3. /\ call[u] # Absent => call[u] \in Calls /\ CallShape(call[u], store[u])
        /\ store[u] # Absent => store[u] \in Stores
    BY DEF ShapeInv, TypeOK
  <2>4. Kept(u)'
    BY <2>1, <2>2, <2>3 DEF HandlesKeepTheirFiles, Owns, Holds, StoreHolds, Stores
  <2>5. Knows(u)'
    <3> SUFFICES ASSUME call[u] # Absent
                 PROVE  CallKnows(call[u])'
      BY <2>1
    <3>1. CallKnows(call[u]) /\ call[u].path \in Paths
      BY <2>3 DEF CallsKnow, Calls
    <3>2. CASE Owns(u, call[u].path)
      BY <2>1, <2>2, <3>1, <3>2 DEF CallKnows
    <3>3. CASE ~Owns(u, call[u].path)
      <4>1. /\ ~call[u].held /\ ~call[u].copy /\ call[u].at = "acquire"
            /\ call[u].h5 = Absent /\ call[u].db = Absent
        BY <2>3, <3>1, <3>3 DEF CallShape, Owns, Holds, CallHolds, StoreHolds
      <4> QED
        BY <2>1, <4>1 DEF CallKnows
    <3> QED
      BY <3>2, <3>3
  <2> QED
    BY <2>4, <2>5
<1>2. Kept(t)' /\ Knows(t)'
  <2>0. /\ call[t] # Absent => call[t] \in Calls /\ CallShape(call[t], store[t]) /\ CallKnows(call[t])
        /\ store[t] # Absent => store[t] \in Stores
        /\ store[t] # Absent /\ store[t].mode = "InMemory" => store[t].db = Absent
        /\ Kept(t)
    BY DEF ShapeInv, CallsKnow, HandlesKeepTheirFiles, TypeOK
  <2>1. CASE Acquire(t)
    BY <2>1, <2>0, HandleConstants, NoneIsAbsent DEF Acquire, TypeOK, CallKnows,
       CallShape, Stores, Calls
  <2>2. CASE Close(t)
    BY <2>2, <2>0, HandleConstants, NoneIsAbsent DEF Close, Idle, NewCall, TypeOK,
       CallKnows, CallShape, Stores, Calls
  <2>3. CASE CloseReleases(t)
    BY <2>3, <2>0, HandleConstants, NoneIsAbsent DEF CloseReleases, At, Released,
       TypeOK, CallKnows, CallShape, Stores, Calls
  <2>4. CASE CallFails(t)
    <3>1. CallShape(call[t], store[t]) /\ CallKnows(call[t]) /\ call[t] \in Calls
      BY <2>0, <2>4, CallFailsCall, NoneIsAbsent
    <3>2. Kept(t)'
      BY ZenonT(30), <2>0, <2>4, CallFailsCall, NoneIsAbsent
    <3>3. CASE call'[t] = Absent
      BY <3>2, <3>3
    <3>4. CASE call'[t] # Absent
      <4>1. /\ call[t].copy /\ call[t].at # "check"
            /\ call'[t].op = "copy" /\ call'[t].at = "cleanup"
            /\ call'[t].path = call[t].path /\ call'[t].made = call[t].made
            /\ UNCHANGED <<h5, db>>
        BY <2>4, <3>4, CallFailsCall
      <4>2. CallKnows(call[t])'
        BY <3>1, <4>1 DEF CallKnows
      <4> QED
        BY <3>2, <4>2
    <3> QED
      BY <3>3, <3>4
  <2>5. CASE CreateInMemory(t)
    BY <2>5, <2>0, HandleConstants, NoneIsAbsent DEF CreateInMemory, Idle, TypeOK,
       CallKnows, CallShape, Stores, Calls
  <2>6. CASE \E p \in Paths, mode \in Modes, op \in {"create", "replace", "open", "bare"} :
                Begin(t, op, p, mode)
    BY <2>6, <2>0, HandleConstants, NoneIsAbsent DEF Begin, Idle, NewCall, TypeOK,
       CallKnows, CallShape, Stores, Calls
  <2>7. CASE CreateChecks(t)
    BY <2>7, <2>0, HandleConstants, NoneIsAbsent DEF CreateChecks, At, Advance,
       TypeOK, CallKnows, CallShape, Stores, Calls
  <2>8. CASE CreateCatalog(t)
    BY <2>8, <2>0, OpenCatalogCall, HandleConstants, NoneIsAbsent
     DEF TypeOK, CallKnows, CallShape, Stores, Calls
  <2>9. CASE CreateArrays(t)
    BY <2>9, <2>0, HandleConstants, NoneIsAbsent DEF CreateArrays, At, Unused,
       TypeOK, CallKnows, CallShape, Stores, Calls
  <2>10. CASE StampAndReturn(t)
    BY <2>10, <2>0, HandleConstants, NoneIsAbsent DEF StampAndReturn, Opens, TypeOK,
       CallKnows, CallShape, Stores, Calls
  <2>11. CASE ReplaceRemovesCatalog(t)
    BY <2>11, <2>0, HandleConstants, NoneIsAbsent DEF ReplaceRemovesCatalog, At,
       Advance, TypeOK, CallKnows, CallShape, Stores, Calls
  <2>12. CASE ReplaceRemovesArrays(t)
    BY <2>12, <2>0, HandleConstants, NoneIsAbsent DEF ReplaceRemovesArrays, At,
       NewCall, Released, TypeOK, CallKnows, CallShape, Stores, Calls
  <2>13. CASE OpenArrays(t)
    BY <2>13, <2>0, HandleConstants, NoneIsAbsent DEF OpenArrays, At, TypeOK,
       CallKnows, CallShape, Stores, Calls
  <2>14. CASE OpensCatalog(t)
    BY <2>14, <2>0, OpenCatalogCall, HandleConstants, NoneIsAbsent
     DEF TypeOK, CallKnows, CallShape, Stores, Calls
  <2>15. CASE BareChecks(t)
    BY <2>15, <2>0, HandleConstants, NoneIsAbsent DEF BareChecks, At, Advance,
       TypeOK, CallKnows, CallShape, Stores, Calls
  <2>16. CASE BareCatalog(t)
    BY <2>16, <2>0, OpenCatalogCall, HandleConstants, NoneIsAbsent
     DEF TypeOK, CallKnows, CallShape, Stores, Calls
  <2>17. CASE \E src \in Paths, p \in Paths, mode \in Modes : CopyBegin(t, src, p, mode)
    BY <2>17, <2>0, HandleConstants, NoneIsAbsent DEF CopyBegin, Idle, NewCall,
       TypeOK, CallKnows, CallShape, Stores, Calls
  <2>18. CASE CopyChecks(t)
    BY <2>18, <2>0, HandleConstants, NoneIsAbsent DEF CopyChecks, At, Advance,
       TypeOK, CallKnows, CallShape, Stores, Calls
  <2>19. CASE CopyArrays(t)
    BY <2>19, <2>0, HandleConstants, NoneIsAbsent DEF CopyArrays, At, Unused,
       TypeOK, CallKnows, CallShape, Stores, Calls
  <2>20. CASE CopyCatalog(t)
    <3>1. /\ CallShape(call[t], store[t]) /\ CallKnows(call[t])
          /\ call[t] \in Calls /\ call[t].path \in Paths
          /\ call[t].op = "copy" /\ call[t].at = "catalog"
      BY <2>0, <2>20, CopyCatalogCall, NoneIsAbsent DEF Calls
    <3>2. /\ call'[t].op = "open" /\ call'[t].path = call[t].path
          /\ call'[t].h5 = Absent /\ call'[t].db = Absent
          /\ UNCHANGED <<h5, store>>
      BY <2>20, <3>1, CopyCatalogCall DEF CallShape
    <3>3. \/ db' = db /\ call'[t].made = call[t].made
          \/ \E f \in Files : /\ db' = [db EXCEPT ![call[t].path] = f]
                              /\ call'[t].made = call[t].made \cup {f}
      BY <2>20, CopyCatalogCall
    <3>4. h5[call[t].path] \in call[t].made \cup {Absent} /\ db[call[t].path] \in call[t].made \cup {Absent}
      BY <3>1 DEF CallKnows, CallShape
    <3>5. h5'[call[t].path] \in call'[t].made \cup {Absent} /\ db'[call[t].path] \in call'[t].made \cup {Absent}
      BY <3>1, <3>2, <3>3, <3>4 DEF TypeOK
    <3>6. CallKnows(call[t])'
      BY <3>2, <3>5 DEF CallKnows
    <3>7. store[t] = Absent
      BY <3>1 DEF CallShape
    <3> QED
      BY <3>2, <3>6, <3>7
  <2>21. CASE CleanupArrays(t)
    BY <2>21, <2>0, HandleConstants, NoneIsAbsent DEF CleanupArrays, At, Advance,
       TypeOK, CallKnows, CallShape, Stores, Calls
  <2>22. CASE CleanupCatalog(t)
    BY <2>22, <2>0, HandleConstants, NoneIsAbsent DEF CleanupCatalog, At, TypeOK,
       CallKnows, CallShape, Stores, Calls
  <2>23. CASE \E p \in Paths, op \in {"persist", "arrays"} : SaveBegin(t, op, p)
    BY <2>23, <2>0, HandleConstants, NoneIsAbsent DEF SaveBegin, Idle, NewCall,
       TypeOK, CallKnows, CallShape, Stores, Calls
  <2>24. CASE SaveOwnBegin(t)
    BY <2>24, <2>0, HandleConstants, NoneIsAbsent DEF SaveOwnBegin, Idle, NewCall,
       TypeOK, CallKnows, CallShape, Stores, Calls
  <2>25. CASE SaveArrays(t)
    BY <2>25, <2>0, HandleConstants, NoneIsAbsent DEF SaveArrays, At, Unused,
       TypeOK, CallKnows, CallShape, Stores, Calls
  <2>26. CASE SaveCatalog(t)
    BY <2>26, <2>0, HandleConstants, NoneIsAbsent DEF SaveCatalog, At, Unused,
       TypeOK, CallKnows, CallShape, Stores, Calls
  <2>27. CASE SaveReturns(t)
    BY <2>0, <2>27, SaveReturnsCall, NoneIsAbsent DEF CallShape
  <2>28. CASE BundleChecks(t)
    BY <2>28, <2>0, HandleConstants, NoneIsAbsent DEF BundleChecks, At, Advance,
       TypeOK, CallKnows, CallShape, Stores, Calls
  <2>29. CASE BundleArrays(t)
    BY <2>29, <2>0, HandleConstants, NoneIsAbsent DEF BundleArrays, At, Unused,
       TypeOK, CallKnows, CallShape, Stores, Calls
  <2>30. CASE PersistCatalog(t)
    BY <2>30, <2>0, HandleConstants, NoneIsAbsent DEF PersistCatalog, Idle, Unused,
       TypeOK, CallKnows, CallShape, Stores, Calls
  <2>31. CASE Compact(t)
    BY <2>31, <2>0, HandleConstants, NoneIsAbsent DEF Compact, Idle, Unused, TypeOK,
       CallKnows, CallShape, Stores, Calls
  <2> QED
    BY <2>1, <2>2, <2>3, <2>4, <2>5, <2>6, <2>7, <2>8, <2>9, <2>10, <2>11, <2>12,
       <2>13, <2>14, <2>15, <2>16, <2>17, <2>18, <2>19, <2>20, <2>21, <2>22, <2>23,
       <2>24, <2>25, <2>26, <2>27, <2>28, <2>29, <2>30, <2>31 DEF ThreadStep
<1> QED
  BY <1>1, <1>2 DEF CallsKnow, HandlesKeepTheirFiles

-----------------------------------------------------------------------------
(* The theorems.                                                           *)

\* The calls' bookkeeping is inductive for any number of threads and paths, copies
\* to a path somebody uses included: the registry names exactly the paths that a
\* store or a call answers for.
THEOREM RegistryExact == Spec => [](TypeOK /\ ShapeInv /\ RegistryIsExact)
<1> DEFINE I == TypeOK /\ ShapeInv /\ RegistryIsExact
<1>1. Init => I
  BY DEF Init, TypeOK, ShapeInv, RegistryIsExact, StoreHolds, CallHolds
<1>2. I /\ [Next]_vars => I'
  <2>1. I /\ Next => I'
    BY TypeStep, ShapeStep, RegistryStep DEF Next
  <2>2. I /\ UNCHANGED vars => I'
    BY DEF vars, TypeOK, ShapeInv, RegistryIsExact, StoreHolds, CallHolds
  <2> QED
    BY <2>1, <2>2
<1> QED
  BY <1>1, <1>2, PTL DEF Spec

\* What the threads know of their files, as one invariant: an open_copy whose
\* destination nobody else uses makes it inductive.
LEMMA FilesInvariant ==
    ASSUME PrivateCopies
    PROVE  Spec => [](ShapeInv /\ CopyIsAlone /\ CallsKnow /\ HandlesKeepTheirFiles)
<1> DEFINE I == TypeOK /\ ShapeInv /\ RegistryIsExact
           J == CopyIsAlone /\ CallsKnow /\ HandlesKeepTheirFiles
<1>1. Init => J
  BY DEF Init, CopyIsAlone, CallsKnow, HandlesKeepTheirFiles
<1>2. I /\ J /\ [Next]_vars => J'
  <2>1. I /\ J /\ Next => J'
    BY AloneStep, FilesStep DEF Next
  <2>2. J /\ UNCHANGED vars => J'
    BY DEF vars, CopyIsAlone, CallsKnow, CallKnows, HandlesKeepTheirFiles
  <2> QED
    BY <2>1, <2>2
<1> QED
  BY <1>1, <1>2, RegistryExact, PTL DEF Spec

\* No create, copy, save or removal of another thread reaches the files of an open
\* store, for any number of threads, paths and files.
THEOREM StoresKeepTheirFiles ==
    ASSUME PrivateCopies
    PROVE  Spec => []HandlesKeepTheirFiles
  BY FilesInvariant, PTL

\* What a call reports is so, whatever the other threads did between its steps, for
\* any number of threads, paths and files.
THEOREM CallsAlwaysLandWhole ==
    ASSUME PrivateCopies
    PROVE  Spec => []CallsLandWhole
<1>1. ShapeInv /\ CallsKnow => CallsLandWhole
  <2> SUFFICES ASSUME ShapeInv, CallsKnow, NEW t \in Threads, call[t] # Absent
               PROVE  /\ call[t].op = "persist" /\ call[t].at = "release" =>
                            h5[call[t].path] = call[t].h5 /\ db[call[t].path] = call[t].db
                      /\ call[t].op = "create" /\ call[t].at = "stamp" =>
                            /\ h5[call[t].path] \in call[t].made
                            /\ db[call[t].path] \in call[t].made \cup {Absent}
                      /\ call[t].op = "copy" /\ call[t].at \in {"cleanup", "release"} =>
                            /\ h5[call[t].path] \in call[t].made \cup {Absent}
                            /\ db[call[t].path] \in call[t].made \cup {Absent}
    BY DEF CallsLandWhole, SaveLandsWhole, NewStoreIsNew, CleanupRemovesOwnCopy, Cleaning, At
  <2>1. CallShape(call[t], store[t]) /\ CallKnows(call[t])
    BY DEF ShapeInv, CallsKnow
  <2> QED
    BY <2>1 DEF CallShape, CallKnows
<1> QED
  BY <1>1, FilesInvariant, PTL

=============================================================================
