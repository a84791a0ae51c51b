---------------------------- MODULE FetchingProofs ----------------------------
(***************************************************************************)
(* For every chain of readers, any number of fetches, archives, mirrors    *)
(* and local edits: a failure is never reported as a missing MIB           *)
(* (NoErrorIsPassedOver), the path reported for a text is that of the file *)
(* it came from (PathOfSupplier), a search of archives unpacks no more     *)
(* than its budget (ScanBudget), its temporary archives are those of the   *)
(* levels it is in, and none when it is over (FetchingInv), and no step of *)
(* a fetch leaves it where it was (EveryStepAdvances).                     *)
(***************************************************************************)
EXTENDS Fetching, SequenceTheorems, FiniteSetTheorems, TLAPS

\* What the HTTP reader uses of a position; the other fields are as at Begin.
HttpPositions ==
    [slot : {1}, there : {FALSE}, url : Nat, tries : Nat, net : BOOLEAN,
     root : {1}, stack : {<<>>}, used : {0}]

Shape ==
    /\ at \in [Tasks -> Readers]
    /\ out \in [Tasks -> {"pending", "text", "reported", "not_found"} \cup Errors]
    /\ pos = [t \in Tasks |-> pos[t]]
    /\ seen \in [Tasks -> SUBSET (Readers \X {"failed", "oversize", "tripped"})]
    /\ \A t \in Tasks : Chain[at[t]] = "http" => pos[t] \in HttpPositions

\* A fetch goes on after a failure only in the reader that met it, which
\* remembers it (last_network).
Remembered(t) ==
    \A s \in seen[t] :
        /\ s[2] = "oversize" => out[t] = "size_limit"
        /\ s[2] = "failed" =>
              /\ s[1] = at[t] /\ out[t] # "not_found"
              /\ out[t] = "pending" => Chain[at[t]] = "http" /\ pos[t].net

ErrorInv == Shape /\ \A t \in Tasks : Remembered(t)
-----------------------------------------------------------------------------
LEMMA ReadersAreNumbers ==
    /\ Len(Chain) \in Nat /\ Len(Chain) > 0 /\ 1 \in Readers
    /\ \A i \in Readers : i \in Nat /\ (i < Len(Chain) => i + 1 \in Readers)
BY ChainIsNotEmpty DEF Readers

LEMMA BeginIsHttp == Begin \in HttpPositions
BY DEF Begin, HttpPositions

\* A step of the task t alone.
Alone(t) ==
    \A u \in Tasks \ {t} :
        /\ at'[u] = at[u] /\ out'[u] = out[u] /\ pos'[u] = pos[u] /\ seen'[u] = seen[u]

LEMMA OneTask ==
    ASSUME ErrorInv, NEW t \in Tasks, Alone(t), Shape', Remembered(t)'
    PROVE  ErrorInv'
<1>1. ASSUME NEW u \in Tasks \ {t} PROVE Remembered(u)'
  BY <1>1 DEF ErrorInv, Remembered, Alone
<1> QED
  BY <1>1 DEF ErrorInv

\* Nothing has failed while a task is in a reader that is not an HttpReader.
Unfailed(t) == \A s \in seen[t] : s[2] \notin {"failed", "oversize"}

LEMMA PendingUnfailed ==
    ASSUME ErrorInv, NEW t \in Tasks, out[t] = "pending", Chain[at[t]] # "http" \/ ~pos[t].net
    PROVE  Unfailed(t)
BY DEF ErrorInv, Remembered, Unfailed

LEMMA MetTyped ==
    ASSUME Shape, NEW t \in Tasks, NEW what \in {"failed", "oversize", "tripped"}, Met(t, what)
    PROVE  /\ seen' \in [Tasks -> SUBSET (Readers \X {"failed", "oversize", "tripped"})]
           /\ seen'[t] = seen[t] \cup {<<at[t], what>>}
           /\ \A u \in Tasks \ {t} : seen'[u] = seen[u]
BY DEF Shape, Met

LEMMA MoveStep ==
    ASSUME ErrorInv, NEW t \in Tasks, NEW p, Move(t, p), out[t] = "pending",
           Chain[at[t]] # "http", seen' = seen
    PROVE  ErrorInv'
<1>1. /\ UNCHANGED <<at, out, seen>> /\ pos' = [pos EXCEPT ![t] = p]
  BY DEF Move
<1>2. Alone(t)
  BY <1>1 DEF Alone, ErrorInv, Shape
<1>3. Shape'
  BY <1>1 DEF ErrorInv, Shape
<1>4. Remembered(t)'
  BY <1>1, PendingUnfailed DEF Remembered, Unfailed
<1> QED
  BY <1>2, <1>3, <1>4, OneTask

\* fetch() of the chain ends.
LEMMA EndStep ==
    ASSUME ErrorInv, NEW t \in Tasks, out[t] = "pending",
           NEW o \in {"text", "not_found"} \cup Errors, NEW s, End(t, o, s),
           \/ seen' = seen /\ (o = "not_found" => Unfailed(t))
           \/ Met(t, "failed") /\ o # "not_found"
           \/ Met(t, "oversize") /\ o = "size_limit"
           \/ Met(t, "tripped") /\ Unfailed(t)
    PROVE  ErrorInv'
<1>1. /\ at' = at /\ out' = [out EXCEPT ![t] = o] /\ pos' = [pos EXCEPT ![t] = Begin]
  BY DEF End
<1>2. /\ seen' \in [Tasks -> SUBSET (Readers \X {"failed", "oversize", "tripped"})]
      /\ \A u \in Tasks \ {t} : seen'[u] = seen[u]
  BY MetTyped DEF ErrorInv, Shape
<1>3. Alone(t)
  BY <1>1, <1>2 DEF Alone, ErrorInv, Shape
<1>4. Shape'
  BY <1>1, <1>2, BeginIsHttp DEF ErrorInv, Shape
<1>5. out'[t] = o /\ at'[t] = at[t] /\ o # "pending"
  BY <1>1 DEF ErrorInv, Shape, Errors
<1>6. \A x \in seen[t] : x[2] # "oversize" /\ (x[2] = "failed" => x[1] = at[t])
  BY DEF ErrorInv, Remembered
<1>7. Remembered(t)'
  <2>1. CASE seen' = seen /\ (o = "not_found" => Unfailed(t))
    BY <2>1, <1>5, <1>6 DEF Remembered, Unfailed
  <2>2. CASE Met(t, "failed") /\ o # "not_found"
    <3>1. seen'[t] = seen[t] \cup {<<at[t], "failed">>}
      BY <2>2, MetTyped DEF ErrorInv
    <3> QED
      BY <2>2, <3>1, <1>5, <1>6 DEF Remembered
  <2>3. CASE Met(t, "oversize") /\ o = "size_limit"
    <3>1. seen'[t] = seen[t] \cup {<<at[t], "oversize">>}
      BY <2>3, MetTyped DEF ErrorInv
    <3> QED
      BY <2>3, <3>1, <1>5, <1>6 DEF Remembered
  <2>4. CASE Met(t, "tripped") /\ Unfailed(t)
    <3>1. seen'[t] = seen[t] \cup {<<at[t], "tripped">>}
      BY <2>4, MetTyped DEF ErrorInv
    <3> QED
      BY <2>4, <3>1, <1>5 DEF Remembered, Unfailed
  <2> QED
    BY <2>1, <2>2, <2>3, <2>4
<1> QED
  BY <1>3, <1>4, <1>7, OneTask

\* The next reader, or MibNotFoundError: nothing has failed.
LEMMA NotHereStep ==
    ASSUME ErrorInv, NEW t \in Tasks, out[t] = "pending", NotHere(t), Unfailed(t),
           seen' = seen \/ Met(t, "tripped")
    PROVE  ErrorInv'
<1>1. CASE at[t] < Len(Chain)
  <2>1. /\ at' = [at EXCEPT ![t] = @ + 1] /\ pos' = [pos EXCEPT ![t] = Begin] /\ out' = out
    BY <1>1 DEF NotHere
  <2>2. /\ seen' \in [Tasks -> SUBSET (Readers \X {"failed", "oversize", "tripped"})]
        /\ \A u \in Tasks \ {t} : seen'[u] = seen[u]
    BY MetTyped DEF ErrorInv, Shape
  <2>3. at[t] + 1 \in Readers
    BY <1>1, ReadersAreNumbers DEF ErrorInv, Shape
  <2>4. Alone(t)
    BY <2>1, <2>2 DEF Alone, ErrorInv, Shape
  <2>5. Shape'
    BY <2>1, <2>2, <2>3, BeginIsHttp DEF ErrorInv, Shape
  <2>6. \A x \in seen'[t] : x[2] \notin {"failed", "oversize"}
    BY MetTyped DEF ErrorInv, Unfailed
  <2>7. Remembered(t)'
    BY <2>6 DEF Remembered
  <2> QED
    BY <2>4, <2>5, <2>7, OneTask
<1>2. CASE ~(at[t] < Len(Chain))
  <2>1. End(t, "not_found", None)
    BY <1>2 DEF NotHere
  <2> QED
    BY <2>1, EndStep
<1> QED
  BY <1>1, <1>2

LEMMA FileSteps ==
    ASSUME ErrorInv, NEW t \in Tasks, LookForFile(t) \/ OpenFile(t)
    PROVE  ErrorInv'
<1>1. out[t] = "pending" /\ Chain[at[t]] = "file" /\ Unfailed(t)
  BY PendingUnfailed DEF LookForFile, OpenFile, Asks
<1>2. CASE LookForFile(t)
  <2>1. seen' = seen
    BY <1>2 DEF LookForFile, history
  <2>2. CASE NotHere(t)
    BY <2>1, <2>2, <1>1, NotHereStep
  <2>3. CASE \E p : Move(t, p)
    BY <2>1, <2>3, <1>1, MoveStep
  <2> QED
    BY <1>2, <2>2, <2>3 DEF LookForFile
<1>3. CASE OpenFile(t)
  <2>1. CASE End(t, "os_error", None) /\ Met(t, "failed")
    BY <2>1, <1>1, EndStep DEF Errors
  <2>2. CASE End(t, "size_limit", None) /\ Met(t, "oversize")
    BY <2>2, <1>1, EndStep DEF Errors
  <2>3. CASE (\E f : End(t, "text", f)) /\ seen' = seen
    BY <2>3, <1>1, EndStep
  <2> QED
    BY <1>3, <2>1, <2>2, <2>3 DEF OpenFile, Fail
<1> QED
  BY <1>2, <1>3

\* A mirror answers; the reader goes on with the position q.
LEMMA ResumeStep ==
    ASSUME ErrorInv, NEW t \in Tasks, out[t] = "pending", Chain[at[t]] = "http",
           NEW q \in HttpPositions, pos' = [pos EXCEPT ![t] = q], UNCHANGED <<at, out>>,
           \/ seen' = seen /\ q.net = pos[t].net
           \/ Met(t, "failed") /\ q.net
    PROVE  ErrorInv'
<1>1. /\ seen' \in [Tasks -> SUBSET (Readers \X {"failed", "oversize", "tripped"})]
      /\ \A u \in Tasks \ {t} : seen'[u] = seen[u]
  BY MetTyped DEF ErrorInv, Shape
<1>2. Alone(t)
  BY <1>1 DEF Alone, ErrorInv, Shape
<1>3. pos'[t] = q
  BY DEF ErrorInv, Shape
<1>4. Shape'
  BY <1>1, <1>3 DEF ErrorInv, Shape
<1>5. Remembered(t)'
  <2>1. CASE seen' = seen /\ q.net = pos[t].net
    BY <2>1, <1>3 DEF ErrorInv, Remembered
  <2>2. CASE Met(t, "failed") /\ q.net
    <3>1. seen'[t] = seen[t] \cup {<<at[t], "failed">>}
      BY <2>2, MetTyped DEF ErrorInv
    <3> QED
      BY <2>2, <3>1, <1>3 DEF ErrorInv, Remembered
  <2> QED
    BY <2>1, <2>2
<1> QED
  BY <1>2, <1>4, <1>5, OneTask

LEMMA HttpSteps ==
    ASSUME ErrorInv, NEW t \in Tasks, Respond(t) \/ NoMoreUrls(t)
    PROVE  ErrorInv'
<1> DEFINE p == pos[t]
<1>1. out[t] = "pending" /\ Chain[at[t]] = "http" /\ p \in HttpPositions
  BY DEF Respond, NoMoreUrls, Asks, ErrorInv, Shape
<1>2. /\ NextUrl(p) \in HttpPositions /\ NextUrl(p).net = p.net
      /\ Retry(p) \in HttpPositions /\ Retry(p).net = p.net
      /\ [NextUrl(p) EXCEPT !.net = TRUE] \in HttpPositions
      /\ [NextUrl(p) EXCEPT !.net = TRUE].net
  <2>1. ASSUME NEW q \in HttpPositions
        PROVE  NextUrl(q) \in HttpPositions /\ NextUrl(q).net = q.net
    <3>1. q.url + 1 \in Nat
      BY DEF HttpPositions
    <3> QED
      BY <3>1 DEF NextUrl, HttpPositions
  <2>2. ASSUME NEW q \in HttpPositions
        PROVE  Retry(q) \in HttpPositions /\ Retry(q).net = q.net
    <3>1. q.tries + 1 \in Nat
      BY DEF HttpPositions
    <3> QED
      BY <3>1 DEF Retry, HttpPositions
  <2>3. ASSUME NEW q \in HttpPositions
        PROVE  [q EXCEPT !.net = TRUE] \in HttpPositions /\ [q EXCEPT !.net = TRUE].net
    BY DEF HttpPositions
  <2> QED
    BY <1>1, <2>1, <2>2, <2>3
<1>3. CASE Respond(t)
  <2>1. CASE (\E f : End(t, "text", f)) /\ seen' = seen
    BY <2>1, <1>1, EndStep
  <2>2. CASE /\ \E q \in {NextUrl(p), Retry(p)} : pos' = [pos EXCEPT ![t] = q]
             /\ UNCHANGED <<at, out, seen>>
    BY ZenonT(60), <2>2, <1>1, <1>2, ResumeStep
  <2>3. CASE /\ pos' = [pos EXCEPT ![t] = [NextUrl(p) EXCEPT !.net = TRUE]]
             /\ UNCHANGED <<at, out>> /\ Met(t, "failed")
    BY <2>3, <1>1, <1>2, ResumeStep
  <2>4. CASE End(t, "size_limit", None) /\ Met(t, "oversize")
    BY <2>4, <1>1, EndStep DEF Errors
  <2>5. CASE End(t, "runtime", None) /\ Met(t, "failed")
    BY <2>5, <1>1, EndStep DEF Errors
  <2> QED
    BY <1>3, <2>1, <2>2, <2>3, <2>4, <2>5 DEF Respond, Fail
<1>4. CASE NoMoreUrls(t)
  <2>1. seen' = seen
    BY <1>4 DEF NoMoreUrls, history
  <2>2. CASE p.net
    <3>1. End(t, "network", None)
      BY <1>4, <2>2 DEF NoMoreUrls, Fail
    <3> QED
      BY <2>1, <3>1, <1>1, EndStep DEF Errors
  <2>3. CASE ~p.net
    <3>1. NotHere(t)
      BY <1>4, <2>3 DEF NoMoreUrls
    <3> QED
      BY <2>1, <2>3, <3>1, <1>1, PendingUnfailed, NotHereStep
  <2> QED
    BY <2>2, <2>3
<1> QED
  BY <1>3, <1>4

LEMMA ZipSteps ==
    ASSUME ErrorInv, NEW t \in Tasks, NextRoot(t) \/ SearchEntries(t) \/ SearchNested(t)
    PROVE  ErrorInv'
<1>1. out[t] = "pending" /\ Chain[at[t]] = "zip" /\ Unfailed(t)
  BY PendingUnfailed DEF NextRoot, SearchEntries, SearchNested, Asks
<1>2. CASE (\E p : Move(t, p)) /\ seen' = seen
  BY <1>1, <1>2, MoveStep
<1>3. CASE NotHere(t) /\ (seen' = seen \/ Met(t, "tripped"))
  BY <1>1, <1>3, NotHereStep
<1>4. CASE (\E f : End(t, "text", f)) /\ seen' = seen
  BY <1>1, <1>4, EndStep
<1>5. CASE End(t, "size_limit", None) /\ Met(t, "oversize")
  BY <1>1, <1>5, EndStep DEF Errors
<1>6. CASE (\E o \in {"os_error", "runtime"} : End(t, o, None)) /\ Met(t, "failed")
  BY <1>1, <1>6, EndStep DEF Errors
<1>b. Backtrack(t) => \E p : Move(t, p)
  BY DEF Backtrack
<1>7. CASE NextRoot(t)
  <2>1. seen' = seen
    BY <1>7 DEF NextRoot
  <2>2. NotHere(t) \/ \E p : Move(t, p)
    BY <1>7 DEF NextRoot
  <2> QED
    BY <2>1, <2>2, <1>2, <1>3
<1>8. CASE SearchEntries(t)
  <2>1. \/ (\E p : Move(t, p)) /\ seen' = seen
        \/ (\E f : End(t, "text", f)) /\ seen' = seen
        \/ End(t, "size_limit", None) /\ Met(t, "oversize")
        \/ End(t, "runtime", None) /\ Met(t, "failed")
    BY <1>8, <1>b, Zenon DEF SearchEntries, Fail
  <2> QED
    BY <2>1, <1>2, <1>4, <1>5, <1>6
<1>9. CASE SearchNested(t)
  <2>1. \/ (\E p : Move(t, p)) /\ seen' = seen
        \/ NotHere(t) /\ Met(t, "tripped")
        \/ End(t, "size_limit", None) /\ Met(t, "oversize")
        \/ End(t, "os_error", None) /\ Met(t, "failed")
        \/ End(t, "runtime", None) /\ Met(t, "failed")
    BY <1>9, <1>b, Zenon DEF SearchNested, Fail
  <2> QED
    BY <2>1, <1>2, <1>3, <1>5, <1>6
<1> QED
  BY SMTT(30), <1>7, <1>8, <1>9

\* The resolver asks for the path.
LEMMA LocalPathStep ==
    ASSUME ErrorInv, NEW t \in Tasks, LocalPath(t)
    PROVE  ErrorInv'
<1>1. /\ UNCHANGED <<at, pos, seen>> /\ out[t] = "text"
      /\ out' = [out EXCEPT ![t] = "reported"]
  BY DEF LocalPath, history
<1>2. Shape' /\ Alone(t)
  BY <1>1 DEF ErrorInv, Shape, Alone
<1>3. Remembered(t)'
  BY <1>1 DEF ErrorInv, Shape, Remembered
<1> QED
  BY <1>2, <1>3, OneTask

LEMMA ErrorsRemembered == Spec => []ErrorInv
<1>1. Init => ErrorInv
  BY ReadersAreNumbers, BeginIsHttp DEF Init, ErrorInv, Shape, Remembered
<1>2. ErrorInv /\ [Next]_vars => ErrorInv'
  <2> SUFFICES ASSUME ErrorInv, [Next]_vars PROVE ErrorInv'
    OBVIOUS
  <2>1. CASE UNCHANGED <<at, out, pos, seen>>
    BY <2>1 DEF ErrorInv, Shape, Remembered
  <2>2. CASE UNCHANGED vars
    BY <2>1, <2>2 DEF vars, history
  <2>3. ASSUME NEW t \in Tasks, Fetch(t) \/ LocalPath(t) PROVE ErrorInv'
    BY <2>3, FileSteps, HttpSteps, ZipSteps, LocalPathStep DEF Fetch
  <2>4. ASSUME NEW f \in Files, Edit(f) PROVE ErrorInv'
    BY <2>1, <2>4 DEF Edit
  <2> QED
    BY <2>2, <2>3, <2>4 DEF Next
<1> QED
  BY <1>1, <1>2, PTL DEF Spec

(* chain.py:6-12, httpclient.py:42-55: an oversized text ends the fetch as *)
(* such, and no other failure ends it as a missing MIB or is hidden by a   *)
(* later reader.                                                           *)
THEOREM NoErrorPassesOver == Spec => []NoErrorIsPassedOver
<1>1. ErrorInv => NoErrorIsPassedOver
  BY DEF ErrorInv, Remembered, NoErrorIsPassedOver
<1> QED
  BY <1>1, ErrorsRemembered, PTL
-----------------------------------------------------------------------------
(* The path reported for a text                                            *)
FilePositions ==
    [slot : Nat \ {0}, there : BOOLEAN, url : {1}, tries : {0}, net : {FALSE},
     root : {1}, stack : {<<>>}, used : {0}]

Places ==
    /\ by = [t \in Tasks |-> by[t]] /\ path = [t \in Tasks |-> path[t]]
    /\ \A t \in Tasks : Chain[at[t]] = "file" =>
           /\ pos[t] \in FilePositions
           /\ pos[t].there => pos[t].slot \in 1 .. Slots

\* What the readers before this one, and this one, looked for is not there.
Passed(t) ==
    \A f \in Files :
        \/ f[1] < at[t]
        \/ f[1] = at[t] /\ f[2] < pos[t].slot
        => files[f] = "absent"

\* The text comes from the first local file there is, or there is none
\* before the reader that has it.
Supplied(t) ==
    IF by[t] \in Files
    THEN /\ files[by[t]] # "absent"
         /\ \A f \in Files :
                \/ f[1] < by[t][1]
                \/ f[1] = by[t][1] /\ f[2] < by[t][2]
                => files[f] = "absent"
    ELSE /\ Chain[at[t]] # "file"
         /\ \A f \in Files : f[1] < at[t] => files[f] = "absent"

Located(t) ==
    t \notin disturbed =>
        /\ out[t] = "pending" => Passed(t)
        /\ out[t] = "text" => Supplied(t)
        /\ out[t] = "reported" /\ LocalFirst =>
              path[t] = IF by[t] \in Files THEN by[t] ELSE None

SupplierInv == Places /\ \A t \in Tasks : Located(t)

LEMMA FileFacts ==
    ASSUME NEW f \in Files
    PROVE  /\ f[1] \in Readers /\ f[2] \in 1 .. Slots /\ f = <<f[1], f[2]>>
           /\ f[1] \in Nat /\ f[2] \in Nat /\ f[2] > 0 /\ Chain[f[1]] = "file"
BY ReadersAreNumbers, BoundsAreNumbers DEF Files

LEMMA BeginIsFile == Begin \in FilePositions /\ ~Begin.there /\ Begin.slot = 1
BY DEF Begin, FilePositions

\* A step of the task t alone that leaves the files and the paths as they are.
Quiet(t) ==
    /\ UNCHANGED <<files, path, disturbed>>
    /\ \A u \in Tasks \ {t} :
           /\ at'[u] = at[u] /\ out'[u] = out[u] /\ pos'[u] = pos[u] /\ by'[u] = by[u]

LEMMA OneLocated ==
    ASSUME SupplierInv, NEW t \in Tasks, Quiet(t), Places', Located(t)'
    PROVE  SupplierInv'
<1>1. ASSUME NEW u \in Tasks \ {t} PROVE Located(u)'
  BY <1>1 DEF SupplierInv, Located, Passed, Supplied, Quiet
<1> QED
  BY <1>1 DEF SupplierInv

\* The reader goes on, and looked for nothing but what is not there.
LEMMA GoesOn ==
    ASSUME Shape, SupplierInv, NEW t \in Tasks, out[t] = "pending",
           NEW q, pos' = [pos EXCEPT ![t] = q],
           UNCHANGED <<files, at, out, by, path, disturbed>>,
           Chain[at[t]] = "file" =>
              /\ q \in FilePositions /\ (q.there => q.slot \in 1 .. Slots)
              /\ \/ q.slot = pos[t].slot
                 \/ q.slot = pos[t].slot + 1 /\ files[<<at[t], pos[t].slot>>] = "absent"
    PROVE  SupplierInv'
<1>1. pos'[t] = q /\ \A u \in Tasks \ {t} : pos'[u] = pos[u]
  BY DEF Shape
<1>2. Quiet(t) /\ Places'
  BY <1>1 DEF Quiet, SupplierInv, Places
<1>3. ASSUME t \notin disturbed PROVE Passed(t)'
  <2> SUFFICES ASSUME NEW f \in Files, f[1] < at[t] \/ (f[1] = at[t] /\ f[2] < q.slot)
               PROVE  files[f] = "absent"
    BY <1>1 DEF Passed
  <2>1. Passed(t)
    BY <1>3 DEF SupplierInv, Located
  <2>2. CASE f[1] < at[t]
    BY <2>1, <2>2 DEF Passed
  <2>3. CASE f[1] = at[t] /\ f[2] < q.slot
    <3>1. Chain[at[t]] = "file" /\ pos[t].slot \in Nat
      BY <2>3, FileFacts DEF SupplierInv, Places, FilePositions
    <3>2. f[2] < pos[t].slot \/ (f = <<at[t], pos[t].slot>> /\ files[f] = "absent")
      BY <2>3, <3>1, FileFacts
    <3> QED
      BY <2>1, <2>3, <3>2 DEF Passed
  <2> QED
    BY <2>2, <2>3
<1> QED
  BY <1>2, <1>3, OneLocated DEF Located

LEMMA EndsWithout ==
    ASSUME Shape, SupplierInv, NEW t \in Tasks, NEW o \in {"not_found"} \cup Errors,
           End(t, o, None), UNCHANGED <<files, path, disturbed>>
    PROVE  SupplierInv'
<1>1. /\ at' = at /\ out' = [out EXCEPT ![t] = o] /\ pos' = [pos EXCEPT ![t] = Begin]
      /\ by' = [by EXCEPT ![t] = None]
  BY DEF End
<1>2. Quiet(t) /\ out'[t] = o
  BY <1>1 DEF Quiet, Shape, SupplierInv, Places
<1>3. Places'
  BY <1>1, BeginIsFile DEF SupplierInv, Places, Shape
<1> QED
  BY <1>2, <1>3, OneLocated DEF Located, Errors

LEMMA EndsWith ==
    ASSUME Shape, SupplierInv, NEW t \in Tasks, out[t] = "pending",
           NEW f, End(t, "text", f), UNCHANGED <<files, path, disturbed>>,
           \/ f = <<at[t], 0>> /\ Chain[at[t]] # "file"
           \/ f = <<at[t], pos[t].slot>> /\ Chain[at[t]] = "file" /\ pos[t].there
                /\ files[f] # "absent"
    PROVE  SupplierInv'
<1>1. /\ at' = at /\ out' = [out EXCEPT ![t] = "text"] /\ pos' = [pos EXCEPT ![t] = Begin]
      /\ by' = [by EXCEPT ![t] = f]
  BY DEF End
<1>2. Quiet(t) /\ out'[t] = "text" /\ by'[t] = f
  BY <1>1 DEF Quiet, Shape, SupplierInv, Places
<1>3. Places'
  BY <1>1, BeginIsFile DEF SupplierInv, Places, Shape
<1>4. ASSUME t \notin disturbed PROVE Supplied(t)'
  <2>1. Passed(t)
    BY <1>4 DEF SupplierInv, Located
  <2>2. CASE f = <<at[t], 0>> /\ Chain[at[t]] # "file"
    <3>1. f \notin Files
      BY <2>2, FileFacts
    <3> QED
      BY <1>1, <1>2, <2>1, <2>2, <3>1 DEF Supplied, Passed
  <2>3. CASE f = <<at[t], pos[t].slot>> /\ Chain[at[t]] = "file" /\ pos[t].there
               /\ files[f] # "absent"
    <3>1. f \in Files /\ f[1] = at[t] /\ f[2] = pos[t].slot
      BY <2>3 DEF Files, SupplierInv, Places, Shape
    <3> QED
      BY <1>1, <1>2, <2>1, <2>3, <3>1 DEF Supplied, Passed
  <2> QED
    BY <2>2, <2>3
<1> QED
  BY <1>2, <1>3, <1>4, OneLocated DEF Located

\* The reader has nothing: what it looked for is not there.
LEMMA GoesToNext ==
    ASSUME Shape, SupplierInv, NEW t \in Tasks, out[t] = "pending", NotHere(t),
           UNCHANGED <<files, path, disturbed>>,
           Chain[at[t]] = "file" => pos[t].slot > Slots
    PROVE  SupplierInv'
<1>1. CASE at[t] < Len(Chain)
  <2>1. /\ at' = [at EXCEPT ![t] = @ + 1] /\ pos' = [pos EXCEPT ![t] = Begin]
        /\ out' = out /\ by' = by
    BY <1>1 DEF NotHere
  <2>2. Quiet(t) /\ at'[t] = at[t] + 1 /\ pos'[t] = Begin
    BY <2>1 DEF Quiet, Shape
  <2>3. Places'
    BY <2>1, <2>2, BeginIsFile DEF SupplierInv, Places, Quiet
  <2>4. ASSUME t \notin disturbed PROVE Passed(t)'
    <3>1. Passed(t)
      BY <2>4 DEF SupplierInv, Located
    <3>2. at[t] \in Nat
      BY ReadersAreNumbers DEF Shape
    <3> SUFFICES ASSUME NEW f \in Files,
                        f[1] < at[t] + 1 \/ (f[1] = at[t] + 1 /\ f[2] < 1)
                 PROVE  files[f] = "absent"
      BY <2>1, <2>2, BeginIsFile DEF Passed
    <3>3. f[1] < at[t] \/ f[1] = at[t]
      BY <3>2, FileFacts
    <3>4. CASE f[1] = at[t]
      <4>1. Chain[at[t]] = "file" /\ pos[t].slot \in Nat
        BY <3>4, FileFacts DEF SupplierInv, Places, FilePositions
      <4>2. f[2] < pos[t].slot
        BY <4>1, FileFacts, BoundsAreNumbers
      <4> QED
        BY <3>1, <3>4, <4>2 DEF Passed
    <3> QED
      BY <3>1, <3>3, <3>4 DEF Passed
  <2> QED
    BY <2>1, <2>2, <2>3, <2>4, OneLocated DEF Located
<1>2. CASE ~(at[t] < Len(Chain))
  <2>1. End(t, "not_found", None)
    BY <1>2 DEF NotHere
  <2> QED
    BY <2>1, EndsWithout
<1> QED
  BY <1>1, <1>2

LEMMA FilesLocated ==
    ASSUME Shape, SupplierInv, NEW t \in Tasks, LookForFile(t) \/ OpenFile(t)
    PROVE  SupplierInv'
<1> DEFINE p == pos[t]
<1>1. out[t] = "pending" /\ Chain[at[t]] = "file" /\ p \in FilePositions
  BY DEF LookForFile, OpenFile, Asks, SupplierInv, Places
<1>2. CASE LookForFile(t)
  <2>0. UNCHANGED <<files, path, disturbed>> /\ ~p.there
    BY <1>2 DEF LookForFile, history
  <2>1. CASE p.slot > Slots
    <3>1. NotHere(t)
      BY <1>2, <2>1 DEF LookForFile
    <3> QED
      BY <1>1, <2>0, <2>1, <3>1, GoesToNext
  <2>2. CASE ~(p.slot > Slots) /\ files[<<at[t], p.slot>>] = "absent"
    <3> DEFINE q == [p EXCEPT !.slot = @ + 1]
    <3>1. Move(t, q)
      BY <1>2, <2>2 DEF LookForFile
    <3>2. q \in FilePositions /\ ~q.there /\ q.slot = p.slot + 1
      <4>1. ASSUME NEW r \in FilePositions
            PROVE  LET n == [r EXCEPT !.slot = @ + 1] IN
                   n \in FilePositions /\ n.there = r.there /\ n.slot = r.slot + 1
        <5>1. r.slot + 1 \in Nat \ {0}
          BY DEF FilePositions
        <5> QED
          BY <5>1 DEF FilePositions
      <4> QED
        BY <4>1, <1>1, <2>0
    <3> QED
      BY <1>1, <2>0, <2>2, <3>1, <3>2, GoesOn DEF Move
  <2>3. CASE ~(p.slot > Slots) /\ files[<<at[t], p.slot>>] # "absent"
    <3> DEFINE q == [p EXCEPT !.there = TRUE]
    <3>1. Move(t, q)
      BY <1>2, <2>3 DEF LookForFile
    <3>2. q \in FilePositions /\ q.slot = p.slot
      BY <1>1 DEF FilePositions
    <3>3. q.slot \in 1 .. Slots
      <4>1. p.slot \in Nat \ {0}
        BY <1>1 DEF FilePositions
      <4> QED
        BY <2>3, <3>2, <4>1, BoundsAreNumbers
    <3> QED
      BY <1>1, <2>0, <3>1, <3>2, <3>3, GoesOn DEF Move
  <2> QED
    BY <2>1, <2>2, <2>3
<1>3. CASE OpenFile(t)
  <2>0. UNCHANGED <<files, path, disturbed>> /\ p.there
    BY <1>3 DEF OpenFile
  <2>1. CASE \E o \in Errors : End(t, o, None)
    BY <2>0, <2>1, EndsWithout
  <2>2. CASE /\ files[<<at[t], p.slot>>] = "text"
             /\ End(t, "text", <<at[t], p.slot>>)
    BY <1>1, <2>0, <2>2, EndsWith
  <2> QED
    BY <1>3, <2>1, <2>2 DEF OpenFile, Fail, Errors
<1> QED
  BY <1>2, <1>3

\* An archive or a mirror supplies the text, or the reader goes on or ends.
LEMMA OthersLocated ==
    ASSUME Shape, SupplierInv, NEW t \in Tasks, Chain[at[t]] # "file", out[t] = "pending",
           UNCHANGED <<files, path, disturbed>>,
           \/ UNCHANGED <<at, out, by>> /\ \E q : pos' = [pos EXCEPT ![t] = q]
           \/ NotHere(t)
           \/ End(t, "text", <<at[t], 0>>)
           \/ \E o \in Errors : End(t, o, None)
    PROVE  SupplierInv'
BY GoesOn, GoesToNext, EndsWith, EndsWithout

LEMMA HttpLocated ==
    ASSUME Shape, SupplierInv, NEW t \in Tasks, Respond(t) \/ NoMoreUrls(t)
    PROVE  SupplierInv'
<1>1. Chain[at[t]] # "file" /\ out[t] = "pending" /\ UNCHANGED <<files, path, disturbed>>
  BY DEF Respond, NoMoreUrls, Asks, history
<1>2. \/ UNCHANGED <<at, out, by>> /\ \E q : pos' = [pos EXCEPT ![t] = q]
      \/ NotHere(t)
      \/ End(t, "text", <<at[t], 0>>)
      \/ \E o \in Errors : End(t, o, None)
  <2>1. CASE Respond(t)
    BY <2>1 DEF Respond, Fail, Errors
  <2>2. CASE NoMoreUrls(t)
    BY <2>2 DEF NoMoreUrls, Fail, Errors
  <2> QED
    BY <2>1, <2>2
<1> QED
  BY <1>1, <1>2, OthersLocated

LEMMA ZipLocated ==
    ASSUME Shape, SupplierInv, NEW t \in Tasks,
           NextRoot(t) \/ SearchEntries(t) \/ SearchNested(t)
    PROVE  SupplierInv'
<1>1. Chain[at[t]] # "file" /\ out[t] = "pending" /\ UNCHANGED <<files, path, disturbed>>
  BY DEF NextRoot, SearchEntries, SearchNested, Asks, history
<1>2. ASSUME NEW p, Move(t, p)
      PROVE  UNCHANGED <<at, out, by>> /\ \E q : pos' = [pos EXCEPT ![t] = q]
  BY <1>2 DEF Move
<1>3. Backtrack(t) => \E p : Move(t, p)
  BY DEF Backtrack
<1>4. \/ \E p : Move(t, p)
      \/ NotHere(t)
      \/ End(t, "text", <<at[t], 0>>)
      \/ \E o \in Errors : End(t, o, None)
  <2>1. CASE NextRoot(t)
    BY <2>1 DEF NextRoot
  <2>2. CASE SearchEntries(t)
    BY <2>2, <1>3 DEF SearchEntries, Fail, Errors
  <2>3. CASE SearchNested(t)
    BY <2>3, <1>3 DEF SearchNested, Fail, Errors
  <2> QED
    BY <2>1, <2>2, <2>3
<1> QED
  BY SMTT(30), <1>1, <1>2, <1>4, OthersLocated

\* The first file there is, where the text came from one.
LEMMA FirstIsSupplier ==
    ASSUME NEW S \in SUBSET Files, NEW f \in S,
           \A g \in Files : g[1] < f[1] \/ (g[1] = f[1] /\ g[2] < f[2]) => g \notin S
    PROVE  First(S) = f
<1>1. \A g \in S : f[1] < g[1] \/ (f[1] = g[1] /\ f[2] <= g[2])
  BY FileFacts
<1>2. ASSUME NEW h \in S, \A g \in S : h[1] < g[1] \/ (h[1] = g[1] /\ h[2] <= g[2])
      PROVE  h = f
  <2>1. h[1] < f[1] \/ (h[1] = f[1] /\ h[2] <= f[2])
    BY <1>2
  <2>2. f[1] < h[1] \/ (f[1] = h[1] /\ f[2] <= h[2])
    BY <1>1
  <2>3. h[1] = f[1] /\ h[2] = f[2]
    BY <2>1, <2>2, FileFacts
  <2> QED
    BY <2>3, FileFacts
<1> QED
  BY <1>1, <1>2 DEF First

LEMMA PathLocated ==
    ASSUME Shape, SupplierInv, NEW t \in Tasks, LocalPath(t)
    PROVE  SupplierInv'
<1>1. /\ out[t] = "text" /\ out' = [out EXCEPT ![t] = "reported"]
      /\ path' = [path EXCEPT ![t] = IF Mirrored = {} THEN None ELSE First(Mirrored)]
      /\ UNCHANGED <<files, at, pos, by, disturbed>>
  BY DEF LocalPath, history
<1>2. ASSUME NEW u \in Tasks \ {t} PROVE Located(u)'
  <2>1. out'[u] = out[u] /\ path'[u] = path[u]
    BY <1>1 DEF Shape, SupplierInv, Places
  <2> QED
    BY <1>1, <2>1 DEF SupplierInv, Located, Passed, Supplied
<1>3. Places'
  BY <1>1 DEF SupplierInv, Places
<1>4. ASSUME t \notin disturbed, LocalFirst
      PROVE  path'[t] = IF by[t] \in Files THEN by[t] ELSE None
  <2>1. Supplied(t)
    BY <1>1, <1>4 DEF SupplierInv, Located
  <2>2. path'[t] = IF Mirrored = {} THEN None ELSE First(Mirrored)
    BY <1>1 DEF SupplierInv, Places
  <2>3. CASE by[t] \in Files
    <3>1. by[t] \in Mirrored /\ Mirrored \in SUBSET Files
      BY <2>1, <2>3 DEF Supplied, Mirrored
    <3>2. \A g \in Files : g[1] < by[t][1] \/ (g[1] = by[t][1] /\ g[2] < by[t][2])
                              => g \notin Mirrored
      BY <2>1, <2>3 DEF Supplied, Mirrored
    <3>3. First(Mirrored) = by[t]
      BY <3>1, <3>2, FirstIsSupplier
    <3> QED
      BY <2>2, <2>3, <3>1, <3>3
  <2>4. CASE by[t] \notin Files
    <3>1. ASSUME NEW f \in Files PROVE files[f] = "absent"
      <4>1. at[t] \in Readers /\ f[1] \in Readers /\ Chain[f[1]] = "file"
        BY FileFacts DEF Shape
      <4>2. f[1] < at[t]
        BY <4>1, <1>4, <2>1, <2>4 DEF LocalFirst, Supplied
      <4> QED
        BY <4>2, <2>1, <2>4 DEF Supplied
    <3>2. Mirrored = {}
      BY <3>1 DEF Mirrored
    <3> QED
      BY <2>2, <2>4, <3>2
  <2> QED
    BY <2>3, <2>4
<1>5. Located(t)'
  BY <1>1, <1>4 DEF Located, Shape
<1> QED
  BY <1>2, <1>3, <1>5 DEF SupplierInv

\* A file changes under the fetches that are not over.
LEMMA EditLocated ==
    ASSUME Shape, SupplierInv, NEW f \in Files, Edit(f)
    PROVE  SupplierInv'
<1>1. /\ disturbed' = disturbed \cup {t \in Tasks : out[t] \in {"pending", "text"}}
      /\ UNCHANGED <<at, out, pos, by, path>>
  BY DEF Edit
<1>2. ASSUME NEW t \in Tasks PROVE Located(t)'
  BY <1>1 DEF SupplierInv, Located
<1> QED
  BY <1>1, <1>2 DEF SupplierInv, Places

LEMMA TextsLocated == Spec => []SupplierInv
<1>1. Init => SupplierInv
  <2> SUFFICES ASSUME Init PROVE SupplierInv
    OBVIOUS
  <2>1. ASSUME NEW t \in Tasks PROVE Passed(t)
    <3>1. at[t] = 1 /\ pos[t].slot = 1
      BY BeginIsFile DEF Init
    <3> QED
      BY <3>1, FileFacts, ReadersAreNumbers DEF Passed, Readers
  <2>2. Places
    BY BeginIsFile DEF Init, Places
  <2> QED
    BY <2>1, <2>2 DEF Init, SupplierInv, Located
<1>2. ErrorInv /\ SupplierInv /\ [Next]_vars => SupplierInv'
  <2> SUFFICES ASSUME ErrorInv, SupplierInv, [Next]_vars PROVE SupplierInv'
    OBVIOUS
  <2>0. Shape
    BY DEF ErrorInv
  <2>1. CASE UNCHANGED vars
    BY <2>1 DEF vars, history, SupplierInv, Places, Located, Passed, Supplied
  <2>2. ASSUME NEW t \in Tasks, Fetch(t) \/ LocalPath(t) PROVE SupplierInv'
    BY <2>0, <2>2, FilesLocated, HttpLocated, ZipLocated, PathLocated DEF Fetch
  <2>3. ASSUME NEW f \in Files, Edit(f) PROVE SupplierInv'
    BY <2>0, <2>3, EditLocated
  <2> QED
    BY <2>1, <2>2, <2>3 DEF Next
<1> QED
  BY <1>1, <1>2, ErrorsRemembered, PTL DEF Spec

(* chain.py:79-82: where the chain asks local files first and nobody       *)
(* changes them meanwhile, the path reported is the file that supplied the *)
(* text.                                                                   *)
THEOREM PathIsSupplier == Spec => []PathOfSupplier
<1>1. SupplierInv => PathOfSupplier
  BY DEF SupplierInv, Located, PathOfSupplier
<1> QED
  BY <1>1, TextsLocated, PTL
-----------------------------------------------------------------------------
(* The bytes a ZIP reader unpacks                                          *)
Frames == [arc : Archives, next : Nat]
ZipPositions ==
    [slot : {1}, there : {FALSE}, url : {1}, tries : {0}, net : {FALSE},
     root : Nat \ {0}, stack : Seq(Frames), used : Nat]

\* budget._used is what was unpacked, once the search has begun.
Counted(t) ==
    out[t] = "pending" /\ Chain[at[t]] = "zip" =>
        /\ pos[t] \in ZipPositions
        /\ IF pos[t].root = 1 /\ pos[t].stack = <<>>
           THEN pos[t].used = 0 ELSE pos[t].used = unpacked[t]

BudgetInv ==
    /\ roots \in Layouts
    /\ unpacked \in [Tasks -> Nat]
    /\ \A t \in Tasks : unpacked[t] <= Limit /\ Counted(t)

Budgeted(t) ==
    <<at[t], "tripped">> \in seen'[t] \ seen[t] =>
        unpacked[t] + Nested[Top(t).arc][Top(t).next].size > Limit

LEMMA BeginIsZip == Begin \in ZipPositions /\ Begin.root = 1 /\ Begin.stack = <<>> /\ Begin.used = 0
<1>1. <<>> \in Seq(Frames)
  BY EmptySeq
<1> QED
  BY <1>1 DEF Begin, ZipPositions

LEMMA LimitIsNat == Limit \in Nat
BY BoundsAreNumbers DEF Limit

LEMMA OneCounted ==
    ASSUME Shape, BudgetInv, NEW t \in Tasks,
           \A u \in Tasks \ {t} :
               /\ at'[u] = at[u] /\ out'[u] = out[u] /\ pos'[u] = pos[u]
               /\ unpacked'[u] = unpacked[u],
           roots' = roots, unpacked' \in [Tasks -> Nat], unpacked'[t] <= Limit, Counted(t)'
    PROVE  BudgetInv'
<1>1. ASSUME NEW u \in Tasks \ {t} PROVE unpacked'[u] <= Limit /\ Counted(u)'
  BY <1>1 DEF BudgetInv, Counted
<1> QED
  BY <1>1 DEF BudgetInv

\* The reader begins or the fetch ends: nothing is counted.
LEMMA StartsOver ==
    ASSUME Shape, BudgetInv, NEW t \in Tasks, out[t] = "pending",
           NotHere(t) \/ \E o \in {"text", "not_found"} \cup Errors : \E f : End(t, o, f),
           UNCHANGED <<roots, unpacked>>
    PROVE  BudgetInv'
<1>1. pos' = [pos EXCEPT ![t] = Begin]
  BY DEF NotHere, End
<1>2. \A u \in Tasks \ {t} : at'[u] = at[u] /\ out'[u] = out[u] /\ pos'[u] = pos[u]
  BY DEF NotHere, End, Shape
<1>3. Counted(t)'
  BY <1>1, BeginIsZip DEF Counted, Shape
<1> QED
  BY <1>2, <1>3, OneCounted DEF BudgetInv

\* The search goes on.
LEMMA Searches ==
    ASSUME Shape, BudgetInv, NEW t \in Tasks, NEW p \in ZipPositions, Move(t, p),
           roots' = roots, unpacked' \in [Tasks -> Nat], unpacked'[t] <= Limit,
           \A u \in Tasks \ {t} : unpacked'[u] = unpacked[u],
           IF p.root = 1 /\ p.stack = <<>> THEN p.used = 0 ELSE p.used = unpacked'[t]
    PROVE  BudgetInv'
<1>1. pos' = [pos EXCEPT ![t] = p] /\ UNCHANGED <<at, out>>
  BY DEF Move
<1>2. pos'[t] = p /\ \A u \in Tasks \ {t} : pos'[u] = pos[u]
  BY <1>1 DEF Shape
<1>3. Counted(t)'
  BY <1>2 DEF Counted
<1> QED
  BY <1>1, <1>2, <1>3, OneCounted

\* One archive less on the stack, or none.
LEMMA BacktrackStep ==
    ASSUME Shape, BudgetInv, NEW t \in Tasks, out[t] = "pending", Chain[at[t]] = "zip",
           pos[t].stack # <<>>, Backtrack(t), UNCHANGED <<roots, unpacked>>
    PROVE  BudgetInv'
<1> DEFINE p == pos[t]
           n == Len(p.stack) - 1
<1>2. p \in ZipPositions /\ p.used = unpacked[t] /\ unpacked[t] <= Limit
  BY DEF BudgetInv, Counted
<1>3. p.stack \in Seq(Frames) /\ p.stack # <<>> /\ Len(p.stack) \in Nat \ {0}
        /\ p.root \in Nat \ {0}
  BY <1>2, LenProperties, EmptySeq DEF ZipPositions
<1>n. n \in Nat /\ n < Len(p.stack) /\ n + 1 = Len(p.stack)
  BY <1>3
<1>4. CASE n = 0
  <2> DEFINE q == [p EXCEPT !.stack = <<>>, !.root = @ + 1]
  <2>1. Move(t, q)
    BY <1>4 DEF Backtrack, Depth
  <2>2. q \in ZipPositions /\ q.used = p.used /\ q.root # 1
    <3>1. p.root + 1 \in Nat \ {0} /\ p.root + 1 # 1 /\ <<>> \in Seq(Frames)
      BY <1>3, EmptySeq
    <3> QED
      BY <1>2, <3>1 DEF ZipPositions
  <2> HIDE DEF q
  <2> QED
    BY <1>2, <2>1, <2>2, Searches DEF BudgetInv
<1>5. CASE n # 0
  <2> DEFINE r == SubSeq(p.stack, 1, n)
             s == Advanced(r)
             q == [p EXCEPT !.stack = s]
  <2>1. Move(t, q)
    BY <1>5 DEF Backtrack, Depth
  <2>2. n \in 1 .. Len(p.stack)
    <3>1. \A a, b \in Nat : a # 0 /\ a < b => a \in 1 .. b
      OBVIOUS
    <3> HIDE DEF n, p
    <3> QED
      BY <3>1, <1>3, <1>5, <1>n
  <2>3. r \in Seq(Frames) /\ Len(r) = n /\ n \in 1 .. Len(r)
    BY <1>3, <2>2, SubSeqProperties
  <2>4. r[n] \in Frames
    BY <2>3, ElementOfSeq
  <2>5. [r[n] EXCEPT !.next = @ + 1] \in Frames
    <3>1. ASSUME NEW x \in Frames PROVE [x EXCEPT !.next = @ + 1] \in Frames
      <4>1. x.next + 1 \in Nat
        BY DEF Frames
      <4> QED
        BY <4>1 DEF Frames
    <3> QED
      BY <3>1, <2>4
  <2>6. s = [r EXCEPT ![n] = [r[n] EXCEPT !.next = @ + 1]]
    BY <2>3 DEF Advanced
  <2>7. s \in Seq(Frames) /\ Len(s) = n
    <3> HIDE DEF s, r, n
    <3> QED
      BY <2>3, <2>5, <2>6, ExceptSeq
  <2>8. s # <<>>
    BY <2>2, <2>7, EmptySeq
  <2>9. q \in ZipPositions /\ q.used = p.used /\ q.stack = s
    <3>2. ASSUME NEW x \in ZipPositions, NEW y \in Seq(Frames)
          PROVE  LET z == [x EXCEPT !.stack = y] IN
                 z \in ZipPositions /\ z.used = x.used /\ z.stack = y
      BY DEF ZipPositions
    <3> HIDE DEF s, p
    <3> QED
      BY <1>2, <2>7, <3>2
  <2> HIDE DEF q, s
  <2> QED
    BY <1>2, <2>1, <2>8, <2>9, Searches DEF BudgetInv
<1> QED
  BY <1>4, <1>5

LEMMA RootStep ==
    ASSUME Shape, BudgetInv, NEW t \in Tasks, NextRoot(t)
    PROVE  BudgetInv'
<1> DEFINE p == pos[t]
           a == roots[p.root]
           q == [p EXCEPT !.stack = <<Frame(a)>>]
<1>1. /\ out[t] = "pending" /\ Chain[at[t]] = "zip" /\ p.stack = <<>> /\ roots' = roots
      /\ unpacked' = IF p.root = 1 THEN [unpacked EXCEPT ![t] = 0] ELSE unpacked
  BY DEF NextRoot, Asks, given
<1>2. p \in ZipPositions /\ (IF p.root = 1 THEN p.used = 0 ELSE p.used = unpacked[t])
  BY <1>1 DEF BudgetInv, Counted
<1>3. /\ unpacked' \in [Tasks -> Nat]
      /\ unpacked'[t] = IF p.root = 1 THEN 0 ELSE unpacked[t]
      /\ \A u \in Tasks \ {t} : unpacked'[u] = unpacked[u]
  BY <1>1 DEF BudgetInv
<1>4. unpacked'[t] <= Limit
  BY <1>3, LimitIsNat DEF BudgetInv
<1>5. CASE p.root > Len(roots)
  <2>1. NotHere(t)
    BY <1>5 DEF NextRoot
  <2>2. pos' = [pos EXCEPT ![t] = Begin]
    BY <2>1 DEF NotHere, End
  <2>3. \A u \in Tasks \ {t} : at'[u] = at[u] /\ out'[u] = out[u] /\ pos'[u] = pos[u]
    BY <2>1 DEF NotHere, End, Shape
  <2>4. Counted(t)'
    BY <2>2, BeginIsZip DEF Counted, Shape
  <2> QED
    BY <1>1, <1>3, <1>4, <2>3, <2>4, OneCounted
<1>6. CASE ~(p.root > Len(roots))
  <2>1. Move(t, q)
    BY <1>6 DEF NextRoot
  <2>2. a \in Archives
    <3>1. roots \in Seq(Archives) /\ p.root \in Nat \ {0}
      BY <1>2, ArchivesNest DEF BudgetInv, ZipPositions
    <3>2. p.root \in 1 .. Len(roots)
      BY <1>6, <3>1, LenProperties
    <3> QED
      BY <3>1, <3>2, ElementOfSeq
  <2>3. <<Frame(a)>> \in Seq(Frames) /\ <<Frame(a)>> # <<>>
    BY <2>2 DEF Frame, Frames
  <2>4. ASSUME NEW x \in ZipPositions, NEW y \in Seq(Frames)
        PROVE  LET z == [x EXCEPT !.stack = y] IN
               z \in ZipPositions /\ z.used = x.used /\ z.stack = y
    BY DEF ZipPositions
  <2>5. q \in ZipPositions /\ q.used = p.used /\ q.stack = <<Frame(a)>>
    BY <1>2, <2>3, <2>4
  <2>6. p.used = unpacked'[t]
    BY <1>2, <1>3
  <2> HIDE DEF q
  <2> QED
    BY <1>1, <1>3, <1>4, <2>1, <2>3, <2>5, <2>6, Searches
<1> QED
  BY <1>5, <1>6

LEMMA EntriesStep ==
    ASSUME Shape, BudgetInv, NEW t \in Tasks, SearchEntries(t)
    PROVE  BudgetInv'
<1>1. /\ out[t] = "pending" /\ Chain[at[t]] = "zip" /\ pos[t].stack # <<>>
      /\ UNCHANGED <<roots, unpacked>>
  BY DEF SearchEntries, Asks, given
<1>2. CASE Backtrack(t)
  BY <1>1, <1>2, BacktrackStep
<1>3. CASE \E o \in {"text"} \cup Errors : \E f : End(t, o, f)
  BY <1>1, <1>3, StartsOver
<1>4. CASE Move(t, [pos[t] EXCEPT !.stack[Depth(t) + 1].next = 1])
  <2> DEFINE p == pos[t]
             n == Depth(t) + 1
             e == [p.stack[n] EXCEPT !.next = 1]
             s == [p.stack EXCEPT ![n] = e]
             q == [p EXCEPT !.stack = s]
  <2>1. p \in ZipPositions /\ p.used = unpacked[t] /\ unpacked[t] <= Limit
    BY <1>1 DEF BudgetInv, Counted
  <2>2. p.stack \in Seq(Frames) /\ Len(p.stack) \in Nat \ {0}
    BY <1>1, <2>1, LenProperties, EmptySeq DEF ZipPositions
  <2>3. n = Len(p.stack) /\ n \in 1 .. Len(p.stack)
    BY <2>2 DEF Depth
  <2>4. Move(t, q)
    BY <1>4
  <2>5. e \in Frames
    <3>1. ASSUME NEW x \in Frames PROVE [x EXCEPT !.next = 1] \in Frames
      BY DEF Frames
    <3> QED
      BY <3>1, <2>2, <2>3, ElementOfSeq
  <2>6. s \in Seq(Frames) /\ Len(s) = n
    <3> HIDE DEF e, n
    <3> QED
      BY <2>2, <2>3, <2>5, ExceptSeq
  <2>7. s # <<>>
    BY <2>2, <2>3, <2>6, EmptySeq
  <2>8. ASSUME NEW x \in ZipPositions, NEW y \in Seq(Frames)
        PROVE  LET z == [x EXCEPT !.stack = y] IN
               z \in ZipPositions /\ z.used = x.used /\ z.stack = y
    BY DEF ZipPositions
  <2>9. q \in ZipPositions /\ q.used = p.used /\ q.stack = s
    <3> HIDE DEF s
    <3> QED
      BY <2>1, <2>6, <2>8
  <2> HIDE DEF q, s
  <2> QED
    BY <1>1, <2>1, <2>4, <2>7, <2>9, Searches DEF BudgetInv
<1> QED
  BY <1>2, <1>3, <1>4 DEF SearchEntries, Fail, Errors

LEMMA NestedStep ==
    ASSUME Shape, BudgetInv, NEW t \in Tasks, SearchNested(t)
    PROVE  BudgetInv'
<1> DEFINE p == pos[t]
           e == Nested[Top(t).arc][Top(t).next]
           used == Used(t, e.size)
           Deeper(x, y, v) == [x EXCEPT !.stack = Append(@, y), !.used = v]
           q == Deeper(p, Frame(e.arc), used)
<1>1. out[t] = "pending" /\ Chain[at[t]] = "zip" /\ p.stack # <<>> /\ roots' = roots
  BY DEF SearchNested, Asks, given
<1>2. p \in ZipPositions /\ p.used = unpacked[t]
  BY <1>1 DEF BudgetInv, Counted
<1>3. CASE Backtrack(t) /\ unpacked' = unpacked
  BY <1>1, <1>3, BacktrackStep
<1>4. CASE (\E o \in Errors : End(t, o, None)) /\ unpacked' = unpacked
  BY <1>1, <1>4, StartsOver
<1>5. CASE NotHere(t) /\ unpacked' = unpacked
  BY <1>1, <1>5, StartsOver
<1>6. CASE /\ Top(t).next > 0 /\ Top(t).next <= Len(Nested[Top(t).arc])
           /\ used <= Limit /\ Move(t, q)
           /\ unpacked' = [unpacked EXCEPT ![t] = @ + e.size]
  <2>1. p.stack \in Seq(Frames) /\ Len(p.stack) \in 1 .. Len(p.stack)
    <3>1. p.stack \in Seq(Frames)
      BY <1>2 DEF ZipPositions
    <3>2. Len(p.stack) \in Nat \ {0}
      BY <3>1, <1>1, LenProperties, EmptySeq
    <3>3. \A k \in Nat \ {0} : k \in 1 .. k
      OBVIOUS
    <3> QED
      BY <3>1, <3>2, <3>3
  <2>2. Top(t).arc \in Archives /\ Top(t).next \in Nat
    <3>1. Top(t) \in Frames
      BY <2>1, ElementOfSeq DEF Top
    <3> QED
      BY <3>1 DEF Frames
  <2>3. e.arc \in Archives /\ e.size \in Nat
    <3>1. Nested[Top(t).arc] \in Seq([arc : Archives, size : Nat, read : {"ok", "damaged", "raises"}])
      BY <2>2, ArchivesNest
    <3>2. Top(t).next \in 1 .. Len(Nested[Top(t).arc])
      BY <1>6, <2>2, <3>1, LenProperties
    <3>3. e \in [arc : Archives, size : Nat, read : {"ok", "damaged", "raises"}]
      BY <3>1, <3>2, ElementOfSeq
    <3> QED
      BY <3>3
  <2>4. Frame(e.arc) \in Frames
    BY <2>3 DEF Frame, Frames
  <2>5. used = unpacked[t] + e.size /\ used \in Nat
    BY <1>2, <2>3 DEF Used, BudgetInv
  <2>6. /\ unpacked' \in [Tasks -> Nat] /\ unpacked'[t] = used
        /\ \A u \in Tasks \ {t} : unpacked'[u] = unpacked[u]
    <3> HIDE DEF e, used
    <3> QED
      BY <1>6, <2>3, <2>5 DEF BudgetInv
  <2>7. ASSUME NEW x \in ZipPositions, NEW y \in Frames, NEW v \in Nat
        PROVE  /\ Deeper(x, y, v) \in ZipPositions
               /\ Deeper(x, y, v).used = v /\ Deeper(x, y, v).stack # <<>>
    <3>1. x.stack \in Seq(Frames)
      BY DEF ZipPositions
    <3>2. Append(x.stack, y) \in Seq(Frames) /\ Append(x.stack, y) # <<>>
      BY <3>1, AppendProperties
    <3> QED
      BY <3>2 DEF ZipPositions
  <2>8. q \in ZipPositions /\ q.used = used /\ q.stack # <<>>
    <3> HIDE DEF e, used, p, Deeper
    <3> QED
      BY <1>2, <2>4, <2>5, <2>7
  <2> HIDE DEF q, used
  <2> QED
    BY <1>1, <1>6, <2>6, <2>8, Searches
<1> QED
  BY <1>3, <1>4, <1>5, <1>6 DEF SearchNested, Fail, Errors

LEMMA BudgetKept == Spec => []BudgetInv
<1>1. Init => BudgetInv
  BY LimitIsNat, BeginIsZip DEF Init, BudgetInv, Counted
<1>2. ErrorInv /\ BudgetInv /\ [Next]_vars => BudgetInv'
  <2> SUFFICES ASSUME ErrorInv, BudgetInv, [Next]_vars PROVE BudgetInv'
    OBVIOUS
  <2>0. Shape
    BY DEF ErrorInv
  <2>1. CASE UNCHANGED <<roots, at, out, pos, unpacked>>
    BY <2>1 DEF BudgetInv, Counted
  <2>2. CASE UNCHANGED vars
    BY <2>1, <2>2 DEF vars, given, history
  <2>3. ASSUME NEW t \in Tasks, LookForFile(t) \/ OpenFile(t) \/ Respond(t) \/ NoMoreUrls(t)
        PROVE  BudgetInv'
    <3>1. UNCHANGED <<roots, unpacked>> /\ out[t] = "pending" /\ Chain[at[t]] # "zip"
      BY <2>3 DEF LookForFile, OpenFile, Respond, NoMoreUrls, Asks, given, history
    <3>2. CASE NotHere(t) \/ \E o \in {"text"} \cup Errors : \E f : End(t, o, f)
      BY <2>0, <3>1, <3>2, StartsOver
    <3>3. CASE UNCHANGED <<at, out>> /\ \E p : pos' = [pos EXCEPT ![t] = p]
      <4>1. \A u \in Tasks \ {t} : at'[u] = at[u] /\ out'[u] = out[u] /\ pos'[u] = pos[u]
        BY <2>0, <3>3 DEF Shape
      <4>2. Counted(t)'
        BY <3>1, <3>3 DEF Counted
      <4> QED
        BY <2>0, <3>1, <4>1, <4>2, OneCounted DEF BudgetInv
    <3>4. CASE LookForFile(t)
      BY <3>4, <3>2, <3>3 DEF LookForFile, Move
    <3>5. CASE OpenFile(t)
      BY <3>5, <3>2 DEF OpenFile, Fail, Errors
    <3>6. CASE Respond(t)
      BY <3>6, <3>2, <3>3 DEF Respond, Fail, Errors
    <3>7. CASE NoMoreUrls(t)
      BY <3>7, <3>2 DEF NoMoreUrls, Fail, Errors
    <3> QED
      BY <2>3, <3>4, <3>5, <3>6, <3>7
  <2>4. ASSUME NEW t \in Tasks, LocalPath(t) PROVE BudgetInv'
    <3>1. /\ UNCHANGED <<roots, at, pos, unpacked>> /\ out[t] = "text"
          /\ out' = [out EXCEPT ![t] = "reported"]
      BY <2>4 DEF LocalPath, given, history
    <3>2. Counted(t)' /\ \A u \in Tasks \ {t} : out'[u] = out[u]
      BY <2>0, <3>1 DEF Counted, Shape
    <3> QED
      BY <2>0, <3>1, <3>2, OneCounted DEF BudgetInv
  <2>5. ASSUME NEW f \in Files, Edit(f) PROVE BudgetInv'
    BY <2>1, <2>5 DEF Edit, given
  <2> QED
    BY <2>0, <2>2, <2>3, <2>4, <2>5, RootStep, EntriesStep, NestedStep DEF Next, Fetch
<1> QED
  BY <1>1, <1>2, ErrorsRemembered, PTL DEF Spec

(* zipreader.py:16-22, 40-45: a search of archives unpacks at most four    *)
(* times max_size, and is cut short only if it would itself unpack more.   *)
THEOREM BudgetBounds == Spec => ScanBudget
<1> DEFINE Bounded ==
        \A t \in Tasks :
            /\ unpacked'[t] <= Limit
            /\ <<at[t], "tripped">> \in seen'[t] \ seen[t] =>
                  unpacked[t] + Nested[Top(t).arc][Top(t).next].size > Limit
<1>1. ErrorInv /\ BudgetInv /\ BudgetInv' /\ [Next]_vars => [Bounded]_vars
  <2> SUFFICES ASSUME ErrorInv, BudgetInv, BudgetInv', Next, NEW t \in Tasks
               PROVE  /\ unpacked'[t] <= Limit
                      /\ <<at[t], "tripped">> \in seen'[t] \ seen[t] =>
                            unpacked[t] + Nested[Top(t).arc][Top(t).next].size > Limit
    OBVIOUS
  <2>0. Shape
    BY DEF ErrorInv
  <2>1. unpacked'[t] <= Limit
    BY DEF BudgetInv
  <2> SUFFICES ASSUME <<at[t], "tripped">> \in seen'[t] \ seen[t]
               PROVE  unpacked[t] + Nested[Top(t).arc][Top(t).next].size > Limit
    BY <2>1
  <2>2. ~(\E u \in Tasks, what \in {"failed", "oversize"} : Met(u, what)) /\ seen' # seen
    BY <2>0 DEF Met, Shape
  <2>3. PICK u \in Tasks : SearchNested(u) /\ Met(u, "tripped")
               /\ Used(u, Nested[Top(u).arc][Top(u).next].size) > Limit
    <3>1. ASSUME NEW f \in Files, Edit(f) PROVE FALSE
      BY <2>2, <3>1 DEF Edit
    <3>2. ASSUME NEW u \in Tasks, LocalPath(u) \/ LookForFile(u) \/ OpenFile(u) PROVE FALSE
      BY <2>2, <3>2 DEF LocalPath, LookForFile, OpenFile, history
    <3>3. ASSUME NEW u \in Tasks, Respond(u) \/ NoMoreUrls(u) PROVE FALSE
      BY <2>2, <3>3 DEF Respond, NoMoreUrls, history
    <3>4. ASSUME NEW u \in Tasks, NextRoot(u) \/ SearchEntries(u) PROVE FALSE
      BY <2>2, <3>4 DEF NextRoot, SearchEntries
    <3>5. PICK u \in Tasks : SearchNested(u)
      BY <3>1, <3>2, <3>3, <3>4 DEF Next, Fetch
    <3> QED
      BY <2>2, <3>5 DEF SearchNested
  <2>4. u = t
    BY SMTT(30), <2>0, <2>3 DEF Met, Shape
  <2>5. pos[t].used = unpacked[t]
    BY <2>3, <2>4 DEF SearchNested, Asks, BudgetInv, Counted
  <2> QED
    BY <2>3, <2>4, <2>5 DEF Used
<1> QED
  BY <1>1, ErrorsRemembered, BudgetKept, PTL DEF Spec, ScanBudget
-----------------------------------------------------------------------------
(* The temporary archives of a ZIP reader                                  *)
Positions ==
    [slot : Nat, there : BOOLEAN, url : Nat, tries : Nat, net : BOOLEAN,
     root : Nat, stack : Seq(Frames), used : Nat]

Levels(t) == {d \in Nat : <<t, d>> \in temps}

\* A search that is under way has one archive per frame below the first, and
\* only frames above the depth limit get to their nested archives.  A fetch
\* that is over has none, or the one the disk refused.
Stacked(stack) ==
    /\ Len(stack) <= MaxDepth + 2
    /\ stack # <<>> /\ stack[Len(stack)].next > 0 => Len(stack) <= MaxDepth + 1

Owned(t) ==
    /\ out[t] \in {"text", "reported"} => by[t][1] = at[t]
    /\ out[t] = "pending" =>
           /\ Levels(t) = 1 .. (Len(pos[t].stack) - 1)
           /\ Stacked(pos[t].stack)
           /\ Chain[at[t]] # "zip" => pos[t].stack = <<>>
    /\ out[t] \notin {"pending", "os_error"} => Levels(t) = {}
    /\ out[t] = "os_error" => \E d \in 1 .. MaxDepth + 1 : Levels(t) \subseteq {d}

Typed ==
    /\ files \in [Files -> FileStates] /\ edits \in 0 .. Edits
    /\ want \in [Tasks -> Names] /\ loop \in Tasks \cup {None}
    /\ pos \in [Tasks -> Positions] /\ by = [t \in Tasks |-> by[t]]
    /\ temps \subseteq Tasks \X Nat

TempInv == Typed /\ \A t \in Tasks : Owned(t)

LEMMA BeginIsPosition == Begin \in Positions /\ Begin.stack = <<>> /\ Len(Begin.stack) = 0
<1>1. <<>> \in Seq(Frames) /\ Len(<<>>) = 0
  BY EmptySeq
<1> QED
  BY <1>1 DEF Begin, Positions

LEMMA NoLevels == 1 .. (0 - 1) = {}
OBVIOUS

\* A step of the task t, and of the files that do not belong to any other.
OnlyOf(t) ==
    /\ \A u \in Tasks \ {t} :
           /\ at'[u] = at[u] /\ out'[u] = out[u] /\ pos'[u] = pos[u] /\ by'[u] = by[u]
           /\ Levels(u)' = Levels(u)
    /\ UNCHANGED <<files, edits, want>>
    /\ temps' \subseteq Tasks \X Nat

LEMMA OneOwned ==
    ASSUME TempInv, NEW t \in Tasks, OnlyOf(t), Owned(t)',
           loop' \in Tasks \cup {None}, pos' \in [Tasks -> Positions],
           by' = [u \in Tasks |-> by'[u]]
    PROVE  TempInv'
<1>1. ASSUME NEW u \in Tasks \ {t} PROVE Owned(u)'
  BY <1>1 DEF TempInv, Owned, OnlyOf
<1>2. Typed'
  BY DEF TempInv, Typed, OnlyOf
<1> QED
  BY <1>1, <1>2 DEF TempInv

\* The search is over, or the next reader begins.
LEMMA FetchMovesOn ==
    ASSUME Shape, TempInv, NEW t \in Tasks, out[t] = "pending", NotHere(t),
           Levels(t)' = {}, \A u \in Tasks \ {t} : Levels(u)' = Levels(u),
           UNCHANGED <<files, edits, want>>, temps' \subseteq Tasks \X Nat
    PROVE  TempInv'
<1>1. /\ pos' = [pos EXCEPT ![t] = Begin] /\ loop' \in {t, None}
      /\ pos'[t] = Begin /\ pos' \in [Tasks -> Positions]
  BY BeginIsPosition DEF NotHere, End, TempInv, Typed
<1>2. /\ \A u \in Tasks \ {t} :
            /\ at'[u] = at[u] /\ out'[u] = out[u] /\ pos'[u] = pos[u] /\ by'[u] = by[u]
      /\ out'[t] \in {"pending", "not_found"} /\ by' = [u \in Tasks |-> by'[u]]
  BY DEF NotHere, End, Shape, TempInv, Typed
<1>3. Stacked(Begin.stack)
  BY BeginIsPosition DEF Stacked, MaxDepth
<1>4. Levels(t)' = 1 .. (Len(pos'[t].stack) - 1)
  BY <1>1, BeginIsPosition, NoLevels
<1>5. Owned(t)'
  BY <1>1, <1>2, <1>3, <1>4, BeginIsPosition DEF Owned
<1> QED
  BY <1>1, <1>2, <1>5, OneOwned DEF OnlyOf

LEMMA FetchEnds ==
    ASSUME Shape, TempInv, NEW t \in Tasks, out[t] = "pending",
           NEW o \in {"text", "not_found"} \cup Errors, NEW f, End(t, o, f),
           o = "text" => f[1] = at[t],
           o # "os_error" => Levels(t)' = {},
           \E d \in 1 .. MaxDepth + 1 : Levels(t)' \subseteq {d},
           \A u \in Tasks \ {t} : Levels(u)' = Levels(u),
           UNCHANGED <<files, edits, want>>, temps' \subseteq Tasks \X Nat
    PROVE  TempInv'
<1>1. pos' \in [Tasks -> Positions] /\ loop' = None
  BY BeginIsPosition DEF End, TempInv, Typed
<1>2. /\ \A u \in Tasks \ {t} :
            /\ at'[u] = at[u] /\ out'[u] = out[u] /\ pos'[u] = pos[u] /\ by'[u] = by[u]
      /\ out'[t] = o /\ by'[t] = f /\ at' = at /\ by' = [u \in Tasks |-> by'[u]]
  BY DEF End, Shape, TempInv, Typed
<1>3. Owned(t)'
  BY <1>2 DEF Owned, Errors
<1> QED
  BY <1>1, <1>2, <1>3, OneOwned DEF OnlyOf

LEMMA FetchGoesOn ==
    ASSUME Shape, TempInv, NEW t \in Tasks, out[t] = "pending", NEW p \in Positions,
           pos' = [pos EXCEPT ![t] = p], loop' \in {t, None}, UNCHANGED <<at, out, by>>,
           Stacked(p.stack), Chain[at[t]] # "zip" => p.stack = <<>>,
           Levels(t)' = 1 .. (Len(p.stack) - 1),
           \A u \in Tasks \ {t} : Levels(u)' = Levels(u),
           UNCHANGED <<files, edits, want>>, temps' \subseteq Tasks \X Nat
    PROVE  TempInv'
<1>1. pos' \in [Tasks -> Positions] /\ pos'[t] = p /\ \A u \in Tasks \ {t} : pos'[u] = pos[u]
  BY DEF TempInv, Typed
<1>2. Owned(t)'
  BY <1>1 DEF Owned
<1> QED
  BY <1>1, <1>2, OneOwned DEF OnlyOf, TempInv, Typed

LEMMA SameLevels == temps' = temps => \A u \in Tasks : Levels(u)' = Levels(u)
BY DEF Levels

LEMMA PositionOf ==
    ASSUME TempInv, NEW t \in Tasks, out[t] = "pending"
    PROVE  /\ pos[t] \in Positions /\ pos[t].stack \in Seq(Frames) /\ Stacked(pos[t].stack)
           /\ Levels(t) = 1 .. (Len(pos[t].stack) - 1)
           /\ Chain[at[t]] # "zip" => pos[t].stack = <<>> /\ Levels(t) = {}
<1>1. pos[t] \in Positions /\ pos[t].stack \in Seq(Frames)
  BY DEF TempInv, Typed, Positions
<1>2. Len(<<>>) = 0
  BY EmptySeq
<1> QED
  BY <1>1, <1>2, NoLevels DEF TempInv, Owned

LEMMA OtherReadersOwn ==
    ASSUME Shape, TempInv, NEW t \in Tasks,
           LookForFile(t) \/ OpenFile(t) \/ Respond(t) \/ NoMoreUrls(t)
    PROVE  TempInv'
<1> DEFINE p == pos[t]
<1>1. /\ out[t] = "pending" /\ Chain[at[t]] # "zip"
      /\ UNCHANGED <<files, edits, want, temps>>
  BY DEF LookForFile, OpenFile, Respond, NoMoreUrls, Asks, given, history
<1>2. /\ p \in Positions /\ p.stack = <<>> /\ Levels(t)' = {} /\ temps' \subseteq Tasks \X Nat
      /\ \A u \in Tasks : Levels(u)' = Levels(u)
      /\ 1 \in 1 .. MaxDepth + 1 /\ Levels(t)' \subseteq {1}
  BY <1>1, PositionOf, SameLevels DEF TempInv, Typed, MaxDepth
<1>3. CASE NotHere(t)
  BY <1>1, <1>2, <1>3, FetchMovesOn
<1>4. ASSUME NEW o \in {"text", "not_found"} \cup Errors, NEW f, End(t, o, f),
             o = "text" => f[1] = at[t]
      PROVE  TempInv'
  BY <1>1, <1>2, <1>4, FetchEnds
<1>5. ASSUME NEW q \in Positions, pos' = [pos EXCEPT ![t] = q], loop' \in {t, None},
             UNCHANGED <<at, out, by>>, q.stack = p.stack
      PROVE  TempInv'
  <2>1. Levels(t)' = 1 .. (Len(q.stack) - 1) /\ Stacked(q.stack)
    BY <1>1, <1>2, <1>5, PositionOf
  <2> QED
    BY <1>1, <1>2, <1>5, <2>1, FetchGoesOn
<1>6. CASE LookForFile(t)
  <2>1. CASE NotHere(t)
    BY <1>3, <2>1
  <2>2. CASE Move(t, [p EXCEPT !.slot = @ + 1])
    <3>1. p.slot + 1 \in Nat
      BY <1>2 DEF Positions
    <3>2. [p EXCEPT !.slot = @ + 1] \in Positions /\ [p EXCEPT !.slot = @ + 1].stack = p.stack
      BY <1>2, <3>1 DEF Positions
    <3> QED
      BY <1>5, <2>2, <3>2 DEF Move
  <2>3. CASE Move(t, [p EXCEPT !.there = TRUE])
    <3>1. [p EXCEPT !.there = TRUE] \in Positions /\ [p EXCEPT !.there = TRUE].stack = p.stack
      BY <1>2 DEF Positions
    <3> QED
      BY <1>5, <2>3, <3>1 DEF Move
  <2> QED
    BY <1>6, <2>1, <2>2, <2>3 DEF LookForFile
<1>7. CASE OpenFile(t)
  <2>1. ASSUME NEW o \in {"text"} \cup Errors, End(t, o, <<at[t], p.slot>>) PROVE TempInv'
    BY <1>4, <2>1
  <2>2. ASSUME NEW o \in Errors, Fail(t, o) PROVE TempInv'
    <3>1. o # "text"
      BY <2>2 DEF Errors
    <3> QED
      BY <1>4, <2>2, <3>1 DEF Fail
  <2> QED
    BY <1>7, <2>1, <2>2 DEF OpenFile, Errors
<1>8. CASE Respond(t)
  <2>1. NextUrl(p) \in Positions /\ NextUrl(p).stack = p.stack
    <3>1. p.url + 1 \in Nat
      BY <1>2 DEF Positions
    <3> QED
      BY <1>2, <3>1 DEF NextUrl, Positions
  <2>2. Retry(p) \in Positions /\ Retry(p).stack = p.stack
    <3>1. p.tries + 1 \in Nat
      BY <1>2 DEF Positions
    <3> QED
      BY <1>2, <3>1 DEF Retry, Positions
  <2>3. [NextUrl(p) EXCEPT !.net = TRUE] \in Positions
          /\ [NextUrl(p) EXCEPT !.net = TRUE].stack = p.stack
    BY <2>1 DEF Positions
  <2>4. ASSUME End(t, "text", <<at[t], 0>>) PROVE TempInv'
    BY <1>4, <2>4
  <2>5. ASSUME NEW o \in Errors, Fail(t, o) PROVE TempInv'
    <3>1. o # "text"
      BY <2>5 DEF Errors
    <3> QED
      BY <1>4, <2>5, <3>1 DEF Fail
  <2>6. ASSUME NEW q \in {NextUrl(p), Retry(p), [NextUrl(p) EXCEPT !.net = TRUE]},
               pos' = [pos EXCEPT ![t] = q], loop' = None, UNCHANGED <<at, out, by>>
        PROVE  TempInv'
    BY <1>5, <2>1, <2>2, <2>3, <2>6
  <2> QED
    BY <1>8, <2>4, <2>5, <2>6 DEF Respond, Errors
<1>9. CASE NoMoreUrls(t)
  BY <1>9, <1>3, <1>4 DEF NoMoreUrls, Fail, Errors
<1> QED
  BY <1>6, <1>7, <1>8, <1>9

LEMMA EmptyStack == Stacked(<<>>) /\ Len(<<>>) = 0 /\ <<>> \in Seq(Frames)
<1>1. Len(<<>>) = 0 /\ <<>> \in Seq(Frames)
  BY EmptySeq
<1> QED
  BY <1>1 DEF Stacked, MaxDepth

LEMMA Intervals == 1 .. (1 - 1) = {} /\ 1 .. (0 - 1) = {}
OBVIOUS

\* The archive that was searched without success is removed.
LEMMA BacktrackOwns ==
    ASSUME Shape, TempInv, NEW t \in Tasks, out[t] = "pending", Chain[at[t]] = "zip",
           pos[t].stack # <<>>, Backtrack(t), UNCHANGED <<files, edits, want>>
    PROVE  TempInv'
<1> DEFINE p == pos[t]
           n == Len(p.stack) - 1
<1>1. /\ p \in Positions /\ p.stack \in Seq(Frames) /\ Stacked(p.stack)
      /\ Levels(t) = 1 .. n /\ p.root \in Nat
  BY PositionOf DEF Positions
<1>2. Len(p.stack) \in Nat \ {0} /\ n \in Nat /\ n <= MaxDepth + 1
  BY <1>1, LenProperties, EmptySeq DEF Stacked, MaxDepth
<1>3. temps' = temps \ {<<t, n>>} /\ temps' \subseteq Tasks \X Nat
  BY DEF Backtrack, Depth, TempInv, Typed
<1>4. \A u \in Tasks \ {t} : Levels(u)' = Levels(u)
  BY <1>3 DEF Levels
<1>5. Levels(t)' = 1 .. (n - 1)
  <2>1. Levels(t)' = Levels(t) \ {n}
    BY <1>3 DEF Levels
  <2>2. (1 .. n) \ {n} = 1 .. (n - 1)
    BY <1>2
  <2> HIDE DEF n
  <2> QED
    BY <1>1, <2>1, <2>2
<1>6. CASE n = 0
  <2> DEFINE q == [p EXCEPT !.stack = <<>>, !.root = @ + 1]
  <2>1. Move(t, q)
    BY <1>6 DEF Backtrack, Depth
  <2>2. q \in Positions /\ q.stack = <<>>
    <3>1. p.root + 1 \in Nat /\ <<>> \in Seq(Frames)
      BY <1>1, EmptySeq
    <3> QED
      BY <1>1, <3>1 DEF Positions
  <2>3. Stacked(q.stack) /\ Levels(t)' = 1 .. (Len(q.stack) - 1)
    <3> HIDE DEF q, n
    <3> QED
      BY <1>5, <1>6, <2>2, EmptyStack, Intervals
  <2> HIDE DEF q
  <2> QED
    BY <1>3, <1>4, <2>1, <2>2, <2>3, FetchGoesOn DEF Move
<1>7. CASE n # 0
  <2> DEFINE r == SubSeq(p.stack, 1, n)
             s == Advanced(r)
             q == [p EXCEPT !.stack = s]
  <2>1. Move(t, q)
    BY <1>7 DEF Backtrack, Depth
  <2>2. r \in Seq(Frames) /\ Len(r) = n /\ n \in 1 .. Len(r)
    <3>1. n \in 1 .. Len(p.stack)
      <4>1. n + 1 = Len(p.stack)
        BY <1>2
      <4>2. \A a, b \in Nat : a # 0 /\ a + 1 = b => a \in 1 .. b
        OBVIOUS
      <4> HIDE DEF n, p
      <4> QED
        BY <1>2, <1>7, <4>1, <4>2
    <3> QED
      BY SMTT(30), <1>1, <3>1, SubSeqProperties
  <2>3. s \in Seq(Frames) /\ Len(s) = n
    <3>1. [r[n] EXCEPT !.next = @ + 1] \in Frames
      <4>1. ASSUME NEW x \in Frames PROVE [x EXCEPT !.next = @ + 1] \in Frames
        <5>1. x.next + 1 \in Nat
          BY DEF Frames
        <5> QED
          BY <5>1 DEF Frames
      <4> QED
        BY <4>1, <2>2, ElementOfSeq
    <3>2. s = [r EXCEPT ![n] = [r[n] EXCEPT !.next = @ + 1]]
      BY <2>2 DEF Advanced
    <3> HIDE DEF s, r, n
    <3> QED
      BY <2>2, <3>1, <3>2, ExceptSeq
  <2>4. q \in Positions /\ q.stack = s
    <3>1. ASSUME NEW x \in Positions, NEW y \in Seq(Frames)
          PROVE  LET z == [x EXCEPT !.stack = y] IN z \in Positions /\ z.stack = y
      BY DEF Positions
    <3> HIDE DEF s, p
    <3> QED
      BY <1>1, <2>3, <3>1
  <2>5. Stacked(q.stack) /\ Levels(t)' = 1 .. (Len(q.stack) - 1)
    <3> HIDE DEF s, q, n
    <3> QED
      BY <1>2, <1>5, <2>3, <2>4 DEF Stacked, MaxDepth
  <2> HIDE DEF q
  <2> QED
    BY <1>3, <1>4, <2>1, <2>4, <2>5, FetchGoesOn DEF Move
<1> QED
  BY <1>6, <1>7

LEMMA RootOwns ==
    ASSUME Shape, BudgetInv, TempInv, NEW t \in Tasks, NextRoot(t)
    PROVE  TempInv'
<1> DEFINE p == pos[t]
           a == roots[p.root]
           s == <<Frame(a)>>
           q == [p EXCEPT !.stack = s]
<1>1. /\ out[t] = "pending" /\ Chain[at[t]] = "zip" /\ p.stack = <<>>
      /\ UNCHANGED <<files, edits, want, temps>>
  BY DEF NextRoot, Asks, given
<1>2. p \in Positions /\ Len(p.stack) = 0 /\ Levels(t) = {}
  <2>1. Len(<<>>) = 0
    BY EmptySeq
  <2> QED
    BY <1>1, <2>1, PositionOf, NoLevels
<1>3. /\ Levels(t)' = {} /\ \A u \in Tasks \ {t} : Levels(u)' = Levels(u)
      /\ temps' \subseteq Tasks \X Nat
  BY <1>1, <1>2, SameLevels DEF TempInv, Typed
<1>4. CASE p.root > Len(roots)
  BY <1>1, <1>3, <1>4, FetchMovesOn DEF NextRoot
<1>5. CASE ~(p.root > Len(roots))
  <2>1. Move(t, q)
    BY <1>5 DEF NextRoot
  <2>2. a \in Archives
    <3>1. roots \in Seq(Archives) /\ p.root \in Nat \ {0}
      BY <1>1, ArchivesNest DEF BudgetInv, Counted, ZipPositions
    <3>2. p.root \in 1 .. Len(roots)
      BY <1>5, <3>1, LenProperties
    <3> QED
      BY <3>1, <3>2, ElementOfSeq
  <2>3. s \in Seq(Frames) /\ Len(s) = 1 /\ s[1].next = 0
    BY <2>2 DEF Frame, Frames
  <2>4. q \in Positions /\ q.stack = s
    <3>1. ASSUME NEW x \in Positions, NEW y \in Seq(Frames)
          PROVE  [x EXCEPT !.stack = y] \in Positions /\ [x EXCEPT !.stack = y].stack = y
      BY DEF Positions
    <3>2. s \in Seq(Frames) /\ p \in Positions
      BY <1>2, <2>3
    <3> HIDE DEF s, p
    <3> QED
      BY <3>1, <3>2
  <2>5. Stacked(s)
    <3> HIDE DEF s
    <3> QED
      BY <2>3 DEF Stacked, MaxDepth
  <2>6. Levels(t)' = 1 .. (Len(q.stack) - 1)
    <3> HIDE DEF s, q
    <3> QED
      BY <1>3, <2>3, <2>4, Intervals
  <2> HIDE DEF q
  <2> QED
    BY <1>1, <1>3, <2>1, <2>4, <2>5, <2>6, FetchGoesOn DEF Move
<1> QED
  BY <1>4, <1>5

\* The finally clauses remove all archives of the search.
LEMMA Unwound ==
    ASSUME TempInv, NEW t \in Tasks, out[t] = "pending", Unwind(t)
    PROVE  /\ Levels(t)' = {} /\ \A u \in Tasks \ {t} : Levels(u)' = Levels(u)
           /\ temps' \subseteq Tasks \X Nat
           /\ \E d \in 1 .. MaxDepth + 1 : Levels(t)' \subseteq {d}
<1>1. Levels(t) = 1 .. Depth(t)
  BY PositionOf DEF Depth
<1>2. temps' = temps \ {<<t, d>> : d \in 1 .. Depth(t)}
  BY DEF Unwind
<1>3. Levels(t)' = Levels(t) \ (1 .. Depth(t))
  BY <1>2 DEF Levels
<1>4. \A u \in Tasks \ {t} : Levels(u)' = Levels(u)
  BY <1>2 DEF Levels
<1>5. temps' \subseteq Tasks \X Nat
  BY <1>2 DEF TempInv, Typed
<1>6. 1 \in 1 .. MaxDepth + 1
  BY DEF MaxDepth
<1> QED
  BY <1>1, <1>3, <1>4, <1>5, <1>6

LEMMA SearchState ==
    ASSUME TempInv, NEW t \in Tasks, out[t] = "pending", pos[t].stack # <<>>
    PROVE  LET L == Len(pos[t].stack) IN
           /\ L \in Nat \ {0} /\ L \in 1 .. L /\ L <= MaxDepth + 2
           /\ Depth(t) = L - 1 /\ Top(t) = pos[t].stack[L] /\ Top(t) \in Frames
           /\ Top(t).next > 0 => L <= MaxDepth + 1
           /\ Levels(t) = 1 .. (L - 1)
<1> DEFINE L == Len(pos[t].stack)
<1>1. pos[t].stack \in Seq(Frames) /\ Stacked(pos[t].stack) /\ Levels(t) = 1 .. (L - 1)
  BY PositionOf
<1>2. L \in Nat \ {0}
  BY <1>1, LenProperties, EmptySeq
<1>3. L \in 1 .. L
  <2> HIDE DEF L
  <2> QED
    BY <1>2
<1>4. Top(t) = pos[t].stack[L] /\ Depth(t) = L - 1
  BY DEF Top, Depth
<1>5. Top(t) \in Frames
  BY <1>1, <1>3, <1>4, ElementOfSeq
<1> QED
  BY <1>1, <1>2, <1>3, <1>4, <1>5 DEF Stacked

LEMMA EntriesOwn ==
    ASSUME Shape, TempInv, NEW t \in Tasks, SearchEntries(t)
    PROVE  TempInv'
<1> DEFINE p == pos[t]
           n == Len(p.stack)
<1>1. /\ out[t] = "pending" /\ Chain[at[t]] = "zip" /\ p.stack # <<>>
      /\ UNCHANGED <<files, edits, want>>
  BY DEF SearchEntries, Asks, given
<1>2. CASE Backtrack(t)
  BY <1>1, <1>2, BacktrackOwns
<1>3. CASE End(t, "text", <<at[t], 0>>) /\ Unwind(t)
  BY <1>1, <1>3, Unwound, FetchEnds DEF Errors
<1>5. CASE (Fail(t, "size_limit") \/ Fail(t, "runtime")) /\ Unwind(t)
  BY <1>1, <1>5, Unwound, FetchEnds DEF Errors, Fail
<1>4. CASE Move(t, [pos[t] EXCEPT !.stack[Depth(t) + 1].next = 1]) /\ temps' = temps
             /\ Depth(t) <= MaxDepth
  <2> DEFINE e == [p.stack[n] EXCEPT !.next = 1]
             s == [p.stack EXCEPT ![n] = e]
             q == [p EXCEPT !.stack = s]
  <2>1. /\ p \in Positions /\ p.stack \in Seq(Frames) /\ n \in 1 .. n /\ n \in Nat
        /\ n <= MaxDepth + 1 /\ Depth(t) + 1 = n /\ Levels(t) = 1 .. (n - 1)
    BY <1>1, <1>4, PositionOf, SearchState DEF MaxDepth
  <2>2. Move(t, q)
    BY <1>4, <2>1
  <2>3. e \in Frames
    <3>1. ASSUME NEW x \in Frames PROVE [x EXCEPT !.next = 1] \in Frames
      BY DEF Frames
    <3> QED
      BY <3>1, <2>1, ElementOfSeq
  <2>4. s \in Seq(Frames) /\ Len(s) = n
    <3> HIDE DEF e
    <3> QED
      BY <2>1, <2>3, ExceptSeq
  <2>5. q \in Positions /\ q.stack = s
    <3>1. ASSUME NEW x \in Positions, NEW y \in Seq(Frames)
          PROVE  [x EXCEPT !.stack = y] \in Positions /\ [x EXCEPT !.stack = y].stack = y
      BY SMTT(30) DEF Positions
    <3>2. s \in Seq(Frames) /\ p \in Positions
      BY <2>1, <2>4
    <3> HIDE DEF s, p
    <3> QED
      BY <3>1, <3>2
  <2>6. Stacked(s)
    <3> HIDE DEF s, n
    <3> QED
      BY <2>1, <2>4 DEF Stacked, MaxDepth
  <2>7. /\ Levels(t)' = 1 .. (Len(q.stack) - 1) /\ temps' \subseteq Tasks \X Nat
        /\ \A u \in Tasks \ {t} : Levels(u)' = Levels(u)
    <3> HIDE DEF s, q, n
    <3> QED
      BY <1>4, <2>1, <2>4, <2>5, SameLevels DEF TempInv, Typed
  <2> HIDE DEF q, s
  <2> QED
    BY <1>1, <2>2, <2>5, <2>6, <2>7, FetchGoesOn DEF Move
<1>6. \/ Backtrack(t)
      \/ End(t, "text", <<at[t], 0>>) /\ Unwind(t)
      \/ (Fail(t, "size_limit") \/ Fail(t, "runtime")) /\ Unwind(t)
      \/ /\ Move(t, [pos[t] EXCEPT !.stack[Depth(t) + 1].next = 1]) /\ temps' = temps
         /\ Depth(t) <= MaxDepth
  BY Zenon DEF SearchEntries
<1> QED
  BY <1>2, <1>3, <1>4, <1>5, <1>6

LEMMA NestedOwns ==
    ASSUME Shape, BudgetInv, TempInv, NEW t \in Tasks, SearchNested(t)
    PROVE  TempInv'
<1> DEFINE p == pos[t]
           L == Len(p.stack)
           e == Nested[Top(t).arc][Top(t).next]
           v == Used(t, e.size)
<1>1. /\ out[t] = "pending" /\ Chain[at[t]] = "zip" /\ p.stack # <<>> /\ Top(t).next > 0
      /\ UNCHANGED <<files, edits, want>>
  BY DEF SearchNested, Asks, given
<1>2. /\ p \in Positions /\ p.stack \in Seq(Frames) /\ L \in Nat \ {0} /\ Top(t) \in Frames
      /\ L <= MaxDepth + 1 /\ Depth(t) = L - 1 /\ Levels(t) = 1 .. (L - 1)
  BY <1>1, PositionOf, SearchState
<1>3. CASE Backtrack(t)
  BY <1>1, <1>3, BacktrackOwns
<1>4. CASE (Fail(t, "size_limit") \/ Fail(t, "runtime")) /\ Unwind(t)
  BY <1>1, <1>4, Unwound, FetchEnds DEF Errors, Fail
<1>5. CASE NotHere(t) /\ Unwind(t)
  BY <1>1, <1>5, Unwound, FetchMovesOn
<1>6. CASE /\ Move(t, [p EXCEPT !.stack = Append(@, Frame(e.arc)), !.used = v])
           /\ Top(t).next <= Len(Nested[Top(t).arc])
           /\ temps' = temps \cup {<<t, L>>}
  <2> DEFINE s == Append(p.stack, Frame(e.arc))
             q == [p EXCEPT !.stack = s, !.used = v]
  <2>1. e.arc \in Archives /\ e.size \in Nat
    <3>1. Nested[Top(t).arc] \in Seq([arc : Archives, size : Nat, read : {"ok", "damaged", "raises"}])
      BY <1>2, ArchivesNest DEF Frames
    <3>2. Top(t).next \in 1 .. Len(Nested[Top(t).arc])
      BY <1>1, <1>2, <1>6, <3>1, LenProperties DEF Frames
    <3>3. e \in [arc : Archives, size : Nat, read : {"ok", "damaged", "raises"}]
      BY <3>1, <3>2, ElementOfSeq
    <3> QED
      BY <3>3
  <2>2. v \in Nat
    <3>1. p.used \in Nat
      BY <1>2 DEF Positions
    <3> QED
      BY <2>1, <3>1 DEF Used
  <2>3. /\ s \in Seq(Frames) /\ Len(s) = L + 1 /\ s[Len(s)].next = 0
    <3>1. Frame(e.arc) \in Frames /\ Frame(e.arc).next = 0
      BY <2>1 DEF Frame, Frames
    <3> HIDE DEF e
    <3> QED
      BY <1>2, <3>1, AppendProperties
  <2>4. q \in Positions /\ q.stack = s
    <3>1. ASSUME NEW x \in Positions, NEW y \in Seq(Frames), NEW z \in Nat
          PROVE  /\ [x EXCEPT !.stack = y, !.used = z] \in Positions
                 /\ [x EXCEPT !.stack = y, !.used = z].stack = y
      BY DEF Positions
    <3>2. s \in Seq(Frames) /\ p \in Positions
      BY <1>2, <2>3
    <3> HIDE DEF s, p, v
    <3> QED
      BY <2>2, <3>1, <3>2
  <2>5. Stacked(s)
    <3> HIDE DEF s, L
    <3> QED
      BY <1>2, <2>3 DEF Stacked, MaxDepth
  <2>6. /\ temps' \subseteq Tasks \X Nat
        /\ \A u \in Tasks \ {t} : Levels(u)' = Levels(u)
        /\ Levels(t)' = Levels(t) \cup {L}
    <3> HIDE DEF L
    <3> QED
      BY <1>2, <1>6 DEF Levels, TempInv, Typed
  <2>7. Levels(t)' = 1 .. (Len(q.stack) - 1)
    <3>1. (1 .. (L - 1)) \cup {L} = 1 .. L /\ L + 1 - 1 = L
      <4> HIDE DEF L
      <4> QED
        BY <1>2
    <3> HIDE DEF s, q, L
    <3> QED
      BY <1>2, <2>3, <2>4, <2>6, <3>1
  <2>8. Move(t, q)
    BY <1>6
  <2> HIDE DEF q, s
  <2> QED
    BY <1>1, <2>4, <2>5, <2>6, <2>7, <2>8, FetchGoesOn DEF Move
<1>7. CASE /\ Fail(t, "os_error")
           /\ temps' = (temps \ {<<t, d>> : d \in 1 .. Depth(t)}) \cup {<<t, L>>}
  <2> HIDE DEF L
  <2>1. /\ temps' \subseteq Tasks \X Nat
        /\ \A u \in Tasks \ {t} : Levels(u)' = Levels(u)
    BY <1>2, <1>7 DEF Levels, TempInv, Typed
  <2>2. Levels(t)' \subseteq {L}
    <3>1. Levels(t)' = (Levels(t) \ (1 .. Depth(t))) \cup {L}
      BY <1>2, <1>7 DEF Levels
    <3> QED
      BY <1>2, <3>1
  <2>3. L \in 1 .. MaxDepth + 1
    BY <1>2 DEF MaxDepth
  <2> QED
    BY <1>1, <1>7, <2>1, <2>2, <2>3, FetchEnds DEF Errors, Fail
<1> QED
  BY <1>3, <1>4, <1>5, <1>6, <1>7 DEF SearchNested

LEMMA PathOwns ==
    ASSUME Shape, TempInv, NEW t \in Tasks, LocalPath(t)
    PROVE  TempInv'
<1>1. /\ UNCHANGED <<files, edits, want, loop, at, pos, by, temps>> /\ out[t] = "text"
      /\ out' = [out EXCEPT ![t] = "reported"]
  BY DEF LocalPath, given
<1>2. /\ out'[t] = "reported" /\ \A u \in Tasks \ {t} : out'[u] = out[u]
      /\ \A u \in Tasks : Levels(u)' = Levels(u)
  BY <1>1, SameLevels DEF Shape
<1>3. Owned(t)'
  BY <1>1, <1>2 DEF TempInv, Owned
<1> QED
  BY <1>1, <1>2, <1>3, OneOwned DEF OnlyOf, TempInv, Typed

LEMMA EditOwns ==
    ASSUME TempInv, NEW f \in Files, Edit(f)
    PROVE  TempInv'
<1>1. UNCHANGED <<want, loop, at, pos, by, temps, out>> /\ edits' \in 0 .. Edits
  BY BoundsAreNumbers DEF Edit, given, TempInv, Typed
<1>2. files' \in [Files -> FileStates]
  BY DEF Edit, TempInv, Typed
<1>3. \A u \in Tasks : Owned(u)'
  BY <1>1 DEF TempInv, Owned, Levels
<1> QED
  BY <1>1, <1>2, <1>3 DEF TempInv, Typed

LEMMA TempsKept == Spec => []TempInv
<1>1. Init => TempInv
  <2> SUFFICES ASSUME Init PROVE TempInv
    OBVIOUS
  <2>1. Typed
    BY BeginIsPosition, BoundsAreNumbers DEF Init, Typed
  <2>2. ASSUME NEW t \in Tasks PROVE Owned(t)
    <3>1. pos[t].stack = <<>> /\ out[t] = "pending" /\ Levels(t) = {}
      BY BeginIsPosition DEF Init, Levels
    <3> QED
      BY <3>1, EmptyStack, NoLevels DEF Owned
  <2> QED
    BY <2>1, <2>2 DEF TempInv
<1>2. ErrorInv /\ BudgetInv /\ TempInv /\ [Next]_vars => TempInv'
  <2> SUFFICES ASSUME ErrorInv, BudgetInv, TempInv, [Next]_vars PROVE TempInv'
    OBVIOUS
  <2>0. Shape
    BY DEF ErrorInv
  <2>1. CASE UNCHANGED vars
    BY <2>1 DEF vars, given, TempInv, Typed, Owned, Levels
  <2>2. ASSUME NEW t \in Tasks, Fetch(t) \/ LocalPath(t) PROVE TempInv'
    BY <2>0, <2>2, OtherReadersOwn, RootOwns, EntriesOwn, NestedOwns, PathOwns DEF Fetch
  <2>3. ASSUME NEW f \in Files, Edit(f) PROVE TempInv'
    BY <2>3, EditOwns
  <2> QED
    BY <2>1, <2>2, <2>3 DEF Next
<1> QED
  BY <1>1, <1>2, ErrorsRemembered, BudgetKept, PTL DEF Spec

(* zipreader.py:173-181: a fetch has at most one temporary archive per     *)
(* level of nesting, and none once it is over, however it ends, but for    *)
(* the one the disk refused.                                               *)
THEOREM ArchivesAreRemoved == Spec => []FetchingInv
<1>1. ErrorInv /\ BudgetInv /\ TempInv => FetchingInv
  <2> SUFFICES ASSUME ErrorInv, BudgetInv, TempInv PROVE FetchingInv
    OBVIOUS
  <2>1. ASSUME NEW t \in Tasks
        PROVE  LET D == {d \in 0 .. MaxDepth + 2 : <<t, d>> \in temps} IN
               /\ Cardinality(D) <= MaxDepth + 1
               /\ out[t] = "pending" => D = 1 .. Depth(t)
               /\ out[t] \notin {"pending", "os_error"} => D = {}
    <3> DEFINE D == {d \in 0 .. MaxDepth + 2 : <<t, d>> \in temps}
    <3>1. Levels(t) \subseteq 1 .. MaxDepth + 1
      <4>1. CASE out[t] = "pending"
        <5>1. Len(pos[t].stack) \in Nat /\ Len(pos[t].stack) <= MaxDepth + 2
          BY <4>1, PositionOf, LenProperties DEF Stacked
        <5> QED
          BY <4>1, <5>1, PositionOf DEF MaxDepth
      <4>2. CASE out[t] # "pending"
        BY <4>2 DEF TempInv, Owned
      <4> QED
        BY <4>1, <4>2
    <3>2. D = Levels(t)
      BY <3>1 DEF Levels, MaxDepth
    <3>3. Cardinality(D) <= MaxDepth + 1
      <4>1. IsFiniteSet(1 .. MaxDepth + 1) /\ Cardinality(1 .. MaxDepth + 1) = MaxDepth + 1
        <5>1. MaxDepth + 1 \in Nat \ {0}
          BY DEF MaxDepth
        <5> DEFINE n == MaxDepth + 1
        <5>2. n \in Int /\ 1 \in Int /\ n >= 1 /\ n - 1 + 1 = n
          BY <5>1
        <5> HIDE DEF n
        <5>3. IsFiniteSet(1 .. n) /\ Cardinality(1 .. n) = n
          BY <5>2, FS_Interval
        <5> QED
          BY <5>3 DEF n
      <4>2. IsFiniteSet(D) /\ Cardinality(D) <= Cardinality(1 .. MaxDepth + 1)
        BY <3>1, <3>2, <4>1, FS_Subset
      <4> QED
        BY <4>1, <4>2
    <3>4. out[t] = "pending" => D = 1 .. Depth(t)
      BY <3>2, PositionOf DEF Depth
    <3>5. out[t] \notin {"pending", "os_error"} => D = {}
      BY <3>2 DEF TempInv, Owned
    <3> QED
      BY <3>3, <3>4, <3>5
  <2>2. TempsAreOwned
    BY <2>1 DEF TempsAreOwned
  <2> QED
    BY <2>2 DEF FetchingInv, ErrorInv, Shape, BudgetInv, TempInv, Typed, Owned
<1> QED
  BY <1>1, ErrorsRemembered, BudgetKept, TempsKept, PTL
-----------------------------------------------------------------------------
(* Why a fetch ends: it never goes back in the chain, in a reader or in    *)
(* the tree of nested archives, and all of them end.                       *)

\* A search of archives goes depth first: into an archive, or on to the next
\* one of an archive it is in.
Deeper(s, z) ==
    \/ /\ Len(z) = Len(s) + 1
       /\ \A i \in 1 .. Len(s) : z[i] = s[i]
    \/ /\ Len(z) \in 1 .. Len(s)
       /\ \A i \in 1 .. (Len(z) - 1) : z[i] = s[i]
       /\ z[Len(z)].arc = s[Len(z)].arc /\ z[Len(z)].next > s[Len(z)].next

Further(kind, p, q) ==
    \/ /\ kind = "file"
       /\ q.slot > p.slot \/ (q.slot = p.slot /\ ~p.there /\ q.there)
    \/ /\ kind = "http"
       /\ q.url > p.url \/ (q.url = p.url /\ q.tries > p.tries)
    \/ /\ kind = "zip"
       /\ q.root > p.root \/ (q.root = p.root /\ Deeper(p.stack, q.stack))

Advances(t) ==
    \/ out'[t] # "pending"
    \/ at'[t] > at[t]
    \/ at'[t] = at[t] /\ Further(Chain[at[t]], pos[t], pos'[t])

\* What every reader, and every archive, has an end of.
Searching(s) ==
    /\ Len(s) <= MaxDepth + 2
    /\ \A i \in 1 .. Len(s) :
           /\ s[i].next <= Len(Nested[s[i].arc]) + 1
           /\ i < Len(s) => s[i].next <= Len(Nested[s[i].arc])

Within(p) ==
    /\ p.slot <= Slots + 1
    /\ p.url <= Urls + 1
    /\ p.tries = 0 \/ p.tries < Retries
    /\ p.root <= Len(roots) + 1 /\ (p.stack # <<>> => p.root <= Len(roots))
    /\ Searching(p.stack)

WithinBounds == \A t \in Tasks : out[t] = "pending" => Within(pos[t])

\* A step of the fetch t: no other task gets anywhere.
Ahead(t) ==
    /\ Advances(t)
    /\ out'[t] = "pending" => Within(pos'[t])
    /\ roots' = roots
    /\ \A u \in Tasks \ {t} : at'[u] = at[u] /\ out'[u] = out[u] /\ pos'[u] = pos[u]

LEMMA BeginIsWithin == ASSUME BudgetInv PROVE Within(Begin)
<1>1. Len(<<>>) = 0 /\ Len(roots) \in Nat
  BY EmptySeq, LenProperties, ArchivesNest DEF BudgetInv
<1>2. /\ Begin.slot = 1 /\ Begin.url = 1 /\ Begin.tries = 0 /\ Begin.root = 1
      /\ Begin.stack = <<>>
  BY DEF Begin
<1> QED
  BY <1>1, <1>2, BoundsAreNumbers DEF Within, Searching, MaxDepth

LEMMA EndIsAhead ==
    ASSUME Shape, NEW t \in Tasks, NEW o, o # "pending", NEW f, End(t, o, f), roots' = roots
    PROVE  Ahead(t)
<1>1. /\ out'[t] = o /\ at' = at
      /\ \A u \in Tasks \ {t} : out'[u] = out[u] /\ pos'[u] = pos[u]
  BY DEF End, Shape
<1> QED
  BY <1>1 DEF Ahead, Advances

LEMMA NextReaderIsAhead ==
    ASSUME Shape, BudgetInv, NEW t \in Tasks, NotHere(t), roots' = roots
    PROVE  Ahead(t)
<1>1. CASE at[t] < Len(Chain)
  <2>1. /\ at'[t] = at[t] + 1 /\ pos'[t] = Begin /\ out' = out
        /\ \A u \in Tasks \ {t} : at'[u] = at[u] /\ pos'[u] = pos[u]
    BY <1>1 DEF NotHere, Shape
  <2>2. at[t] \in Nat
    BY ReadersAreNumbers DEF Shape
  <2>3. at'[t] > at[t]
    BY <2>1, <2>2
  <2> QED
    BY <2>1, <2>3, BeginIsWithin DEF Ahead, Advances
<1>2. CASE ~(at[t] < Len(Chain))
  BY <1>2, EndIsAhead DEF NotHere
<1> QED
  BY <1>1, <1>2

LEMMA FurtherIsAhead ==
    ASSUME Shape, NEW t \in Tasks, NEW q, pos' = [pos EXCEPT ![t] = q], at' = at, out' = out,
           roots' = roots, Further(Chain[at[t]], pos[t], q), Within(q)
    PROVE  Ahead(t)
<1>1. pos'[t] = q /\ \A u \in Tasks \ {t} : pos'[u] = pos[u]
  BY DEF Shape
<1> QED
  BY <1>1 DEF Ahead, Advances

\* The fields a reader does not change keep their bounds.
LEMMA WithOtherFields ==
    ASSUME NEW p \in Positions, NEW q \in Positions, Within(p), q.stack = p.stack,
           q.root = p.root, q.slot <= Slots + 1, q.url <= Urls + 1,
           q.tries = 0 \/ q.tries < Retries
    PROVE  Within(q)
BY DEF Within

LEMMA FilesGoOn ==
    ASSUME Shape, BudgetInv, TempInv, NEW t \in Tasks, out[t] = "pending" => Within(pos[t]),
           LookForFile(t) \/ OpenFile(t)
    PROVE  Ahead(t)
<1> DEFINE p == pos[t]
<1>1. /\ out[t] = "pending" /\ Chain[at[t]] = "file" /\ p \in Positions /\ Within(p)
      /\ roots' = roots
  BY DEF LookForFile, OpenFile, Asks, given, TempInv, Typed
<1>2. CASE OpenFile(t)
  <2>1. \E o \in {"os_error", "size_limit", "text"}, f \in {None, <<at[t], p.slot>>} :
            End(t, o, f)
    BY <1>2 DEF OpenFile, Fail
  <2> QED
    BY <1>1, <2>1, EndIsAhead
<1>3. CASE LookForFile(t) /\ NotHere(t)
  BY <1>1, <1>3, NextReaderIsAhead
<1>4. CASE LookForFile(t) /\ ~NotHere(t)
  <2>1. /\ ~p.there /\ ~(p.slot > Slots)
        /\ \/ Move(t, [p EXCEPT !.slot = @ + 1])
           \/ Move(t, [p EXCEPT !.there = TRUE])
    BY <1>4 DEF LookForFile
  <2>2. p.slot \in Nat /\ p.slot <= Slots
    BY <1>1, <2>1, BoundsAreNumbers DEF Positions
  <2>3. ASSUME NEW q \in Positions, Move(t, q), Within(q),
               q.slot > p.slot \/ (q.slot = p.slot /\ ~p.there /\ q.there)
        PROVE  Ahead(t)
    <3>1. Further(Chain[at[t]], pos[t], q)
      BY <1>1, <2>3 DEF Further
    <3> QED
      BY <1>1, <2>3, <3>1, FurtherIsAhead DEF Move
  <2>4. LET q == [p EXCEPT !.slot = @ + 1] IN
            /\ q \in Positions /\ q.stack = p.stack /\ q.root = p.root /\ q.url = p.url
            /\ q.tries = p.tries /\ q.slot = p.slot + 1
    BY <1>1, <2>2 DEF Positions
  <2>5. LET q == [p EXCEPT !.there = TRUE] IN
            /\ q \in Positions /\ q.stack = p.stack /\ q.root = p.root /\ q.url = p.url
            /\ q.tries = p.tries /\ q.slot = p.slot /\ q.there
    BY <1>1 DEF Positions
  <2>6. CASE Move(t, [p EXCEPT !.slot = @ + 1])
    <3> DEFINE q == [p EXCEPT !.slot = @ + 1]
    <3>1. q \in Positions /\ q.slot = p.slot + 1
      BY <2>4
    <3>2. Within(q)
      <4>1. /\ q.stack = p.stack /\ q.root = p.root /\ q.url = p.url /\ q.tries = p.tries
        BY <2>4
      <4> HIDE DEF q, p
      <4>2. q.slot <= Slots + 1
        BY <2>2, <3>1, BoundsAreNumbers
      <4>3. p.url <= Urls + 1 /\ (p.tries = 0 \/ p.tries < Retries)
        BY <1>1 DEF Within
      <4> QED
        BY <1>1, <3>1, <4>1, <4>2, <4>3, WithOtherFields
    <3>3. q.slot > p.slot
      <4> HIDE DEF q, p
      <4> QED
        BY <2>2, <3>1
    <3> QED
      BY <2>3, <2>6, <3>1, <3>2, <3>3
  <2>7. CASE Move(t, [p EXCEPT !.there = TRUE])
    <3> DEFINE q == [p EXCEPT !.there = TRUE]
    <3>1. q \in Positions /\ q.slot = p.slot /\ q.there
      BY <2>5
    <3>2. Within(q)
      <4>1. /\ q.stack = p.stack /\ q.root = p.root /\ q.url = p.url /\ q.tries = p.tries
        BY <2>5
      <4> HIDE DEF q, p
      <4>2. p.slot <= Slots + 1 /\ p.url <= Urls + 1 /\ (p.tries = 0 \/ p.tries < Retries)
        BY <1>1 DEF Within
      <4> QED
        BY <1>1, <3>1, <4>1, <4>2, WithOtherFields
    <3> QED
      BY <2>1, <2>3, <2>7, <3>1, <3>2
  <2> QED
    BY <2>1, <2>6, <2>7
<1> QED
  BY <1>2, <1>3, <1>4

LEMMA MirrorsGoOn ==
    ASSUME Shape, BudgetInv, TempInv, NEW t \in Tasks, out[t] = "pending" => Within(pos[t]),
           Respond(t) \/ NoMoreUrls(t)
    PROVE  Ahead(t)
<1> DEFINE p == pos[t]
<1>1. /\ out[t] = "pending" /\ Chain[at[t]] = "http" /\ p \in Positions /\ Within(p)
      /\ roots' = roots
  BY DEF Respond, NoMoreUrls, Asks, given, TempInv, Typed
<1>2. ASSUME NEW o \in Errors \cup {"text"}, NEW f, End(t, o, f) PROVE Ahead(t)
  BY <1>1, <1>2, EndIsAhead DEF Errors
<1>3. CASE NoMoreUrls(t)
  <2>1. End(t, "network", None) \/ NotHere(t)
    BY <1>3 DEF NoMoreUrls, Fail
  <2> QED
    BY <1>1, <1>2, <2>1, NextReaderIsAhead DEF Errors
<1>4. CASE Respond(t)
  <2>1. \/ \E o \in {"text", "size_limit", "runtime"}, f \in {None, <<at[t], 0>>} : End(t, o, f)
        \/ /\ at' = at /\ out' = out /\ p.url <= Urls
           /\ \/ pos' = [pos EXCEPT ![t] = NextUrl(p)]
              \/ pos' = [pos EXCEPT ![t] = [NextUrl(p) EXCEPT !.net = TRUE]]
              \/ p.tries + 1 < Retries /\ pos' = [pos EXCEPT ![t] = Retry(p)]
    BY <1>4 DEF Respond, Fail
  <2>2. p.url \in Nat /\ p.tries \in Nat
    BY <1>1 DEF Positions
  <2>3. ASSUME NEW q \in Positions, q.stack = p.stack, q.root = p.root, q.slot = p.slot,
               at' = at, out' = out, pos' = [pos EXCEPT ![t] = q],
               \/ q.url = p.url + 1 /\ q.tries = 0 /\ p.url <= Urls
               \/ q.url = p.url /\ q.tries = p.tries + 1 /\ p.tries + 1 < Retries
        PROVE  Ahead(t)
    <3> HIDE DEF p
    <3>1. q.url > p.url \/ (q.url = p.url /\ q.tries > p.tries)
      BY <2>2, <2>3
    <3>2. q.url <= Urls + 1 /\ (q.tries = 0 \/ q.tries < Retries) /\ q.slot <= Slots + 1
      BY <1>1, <2>2, <2>3, BoundsAreNumbers DEF Within
    <3>3. Within(q)
      BY <1>1, <2>3, <3>2, WithOtherFields
    <3>4. Further(Chain[at[t]], pos[t], q)
      BY <1>1, <3>1 DEF Further, p
    <3> QED
      BY <1>1, <2>3, <3>3, <3>4, FurtherIsAhead
  <2>4. /\ NextUrl(p) \in Positions /\ NextUrl(p).stack = p.stack
        /\ NextUrl(p).root = p.root /\ NextUrl(p).slot = p.slot
        /\ NextUrl(p).url = p.url + 1 /\ NextUrl(p).tries = 0
    <3>1. ASSUME NEW x \in Positions
          PROVE  LET q == [x EXCEPT !.url = @ + 1, !.tries = 0] IN
                     /\ q \in Positions /\ q.stack = x.stack /\ q.root = x.root
                     /\ q.slot = x.slot /\ q.url = x.url + 1 /\ q.tries = 0
      <4>1. x.url \in Nat /\ x.url + 1 \in Nat
        BY DEF Positions
      <4> QED
        BY <4>1 DEF Positions
    <3> QED
      BY <1>1, <3>1 DEF NextUrl
  <2>5. LET q == [NextUrl(p) EXCEPT !.net = TRUE] IN
            /\ q \in Positions /\ q.stack = p.stack /\ q.root = p.root /\ q.slot = p.slot
            /\ q.url = p.url + 1 /\ q.tries = 0
    BY <2>4 DEF Positions
  <2>6. /\ Retry(p) \in Positions /\ Retry(p).stack = p.stack
        /\ Retry(p).root = p.root /\ Retry(p).slot = p.slot
        /\ Retry(p).url = p.url /\ Retry(p).tries = p.tries + 1
    BY <1>1, <2>2 DEF Retry, Positions
  <2>7. CASE at' = at /\ out' = out /\ p.url <= Urls /\ pos' = [pos EXCEPT ![t] = NextUrl(p)]
    BY <2>3, <2>4, <2>7
  <2>8. CASE /\ at' = at /\ out' = out /\ p.url <= Urls
             /\ pos' = [pos EXCEPT ![t] = [NextUrl(p) EXCEPT !.net = TRUE]]
    BY <2>3, <2>5, <2>8
  <2>9. CASE /\ at' = at /\ out' = out
             /\ p.tries + 1 < Retries /\ pos' = [pos EXCEPT ![t] = Retry(p)]
    BY <2>3, <2>6, <2>9
  <2>10. CASE \E o \in {"text", "size_limit", "runtime"}, f \in {None, <<at[t], 0>>} : End(t, o, f)
    BY <1>2, <2>10 DEF Errors
  <2> QED
    BY <2>1, <2>7, <2>8, <2>9, <2>10
<1> QED
  BY <1>3, <1>4

\* A position in the archives, and what the other fields have to do with it.
LEMMA WithOtherStack ==
    ASSUME NEW p \in Positions, NEW s \in Seq(Frames), Within(p), Searching(s),
           NEW q, q.stack = s, q.root <= Len(roots) + 1, s # <<>> => q.root <= Len(roots),
           q.slot = p.slot, q.url = p.url, q.tries = p.tries
    PROVE  Within(q)
BY DEF Within

LEMMA SearchGoesOn ==
    ASSUME Shape, BudgetInv, TempInv, NEW t \in Tasks, out[t] = "pending", Chain[at[t]] = "zip",
           Within(pos[t]), NEW s \in Seq(Frames), Searching(s),
           NEW q, Move(t, q), roots' = roots,
           q.stack = s, q.slot = pos[t].slot, q.url = pos[t].url, q.tries = pos[t].tries,
           pos[t].root <= Len(roots),
           \/ q.root = pos[t].root /\ Deeper(pos[t].stack, s)
           \/ q.root = pos[t].root + 1 /\ s = <<>>
    PROVE  Ahead(t)
<1>1. pos[t] \in Positions /\ pos[t].root \in Nat
  BY DEF TempInv, Typed, Positions
<1>2. q.root > pos[t].root \/ (q.root = pos[t].root /\ Deeper(pos[t].stack, q.stack))
  <2> DEFINE r == pos[t].root
  <2>1. r + 1 > r
    <3> HIDE DEF r
    <3> QED
      BY <1>1 DEF r
  <2> QED
    BY <2>1
<1>3. Further(Chain[at[t]], pos[t], q)
  BY <1>2 DEF Further
<1>4. q.root <= Len(roots) + 1 /\ (s # <<>> => q.root <= Len(roots))
  <2>1. ASSUME NEW r \in Nat, NEW n \in Nat, r <= n PROVE r <= n + 1 /\ r + 1 <= n + 1
    BY <2>1
  <2>2. Len(roots) \in Nat
    BY LenProperties, ArchivesNest DEF BudgetInv
  <2>3. pos[t].root <= Len(roots) + 1 /\ pos[t].root + 1 <= Len(roots) + 1
    BY <1>1, <2>1, <2>2
  <2> QED
    BY <2>3
<1>5. Within(q)
  BY <1>1, <1>4, WithOtherStack
<1> QED
  BY <1>3, <1>5, FurtherIsAhead DEF Move

\* An archive that was searched without success: the one it was in goes on.
LEMMA BacktrackIsAhead ==
    ASSUME Shape, BudgetInv, TempInv, NEW t \in Tasks, out[t] = "pending",
           Chain[at[t]] = "zip", Within(pos[t]), pos[t].stack # <<>>, Backtrack(t),
           roots' = roots
    PROVE  Ahead(t)
<1> DEFINE p == pos[t]
           n == Len(p.stack) - 1
<1>1. p \in Positions /\ p.stack \in Seq(Frames) /\ p.root \in Nat
  BY PositionOf DEF Positions
<1>2. Len(p.stack) \in Nat \ {0} /\ n \in Nat /\ Depth(t) = n /\ n + 1 = Len(p.stack)
  BY <1>1, LenProperties, EmptySeq DEF Depth
<1>3. /\ p.root <= Len(roots) /\ Len(p.stack) <= MaxDepth + 2
      /\ \A i \in 1 .. Len(p.stack) :
            i < Len(p.stack) => p.stack[i].next <= Len(Nested[p.stack[i].arc])
  BY DEF Within, Searching
<1>4. CASE n = 0
  <2> DEFINE q == [p EXCEPT !.stack = <<>>, !.root = @ + 1]
  <2>1. Move(t, q)
    BY <1>2, <1>4 DEF Backtrack
  <2>2. /\ q.stack = <<>> /\ q.slot = p.slot /\ q.url = p.url /\ q.tries = p.tries
        /\ q.root = p.root + 1
    BY <1>1 DEF Positions
  <2>3. <<>> \in Seq(Frames) /\ Searching(<<>>)
    BY EmptyStack DEF MaxDepth, Searching
  <2> HIDE DEF q
  <2> QED
    BY <1>3, <2>1, <2>2, <2>3, SearchGoesOn
<1>5. CASE n # 0
  <2> DEFINE r == SubSeq(p.stack, 1, n)
             f == [p.stack[n] EXCEPT !.next = @ + 1]
             s == [r EXCEPT ![n] = f]
             q == [p EXCEPT !.stack = s]
  <2>0. n \in 1 .. Len(p.stack) /\ n \in 1 .. n
    <3>1. \A a, b \in Nat : a # 0 /\ a + 1 = b => a \in 1 .. b /\ a \in 1 .. a
      OBVIOUS
    <3> HIDE DEF n, p
    <3> QED
      BY <1>2, <1>5, <3>1
  <2>1. /\ r \in Seq(Frames) /\ Len(r) = n
        /\ \A i \in 1 .. n : r[i] = p.stack[i]
    BY SMTT(30), <1>1, <2>0, SubSeqProperties
  <2>2. Move(t, q)
    <3>1. Advanced(r) = s
      BY <2>0, <2>1 DEF Advanced
    <3>2. Move(t, [p EXCEPT !.stack = Advanced(r)])
      BY <1>2, <1>5 DEF Backtrack
    <3> QED
      BY <3>1, <3>2
  <2>3. p.stack[n] \in Frames
    BY <1>1, <2>0, ElementOfSeq
  <2>4. /\ f \in Frames /\ f.arc = p.stack[n].arc /\ f.next = p.stack[n].next + 1
        /\ p.stack[n].next \in Nat
    <3>1. ASSUME NEW x \in Frames
          PROVE  LET y == [x EXCEPT !.next = @ + 1] IN
                     y \in Frames /\ y.arc = x.arc /\ y.next = x.next + 1 /\ x.next \in Nat
      BY DEF Frames
    <3> QED
      BY <2>3, <3>1
  <2> HIDE DEF f
  <2>5. /\ s \in Seq(Frames) /\ Len(s) = n /\ s[n] = f
        /\ \A i \in 1 .. n : i # n => s[i] = p.stack[i]
    <3>1. s \in Seq(Frames) /\ Len(s) = Len(r)
          /\ \A i \in 1 .. Len(r) : s[i] = IF i = n THEN f ELSE r[i]
      <4> HIDE DEF r, n
      <4> QED
        BY <2>0, <2>1, <2>4, ExceptSeq
    <3> HIDE DEF s, r, n
    <3> QED
      BY <2>0, <2>1, <3>1
  <2>6. /\ q.stack = s /\ q.slot = p.slot /\ q.url = p.url /\ q.tries = p.tries
        /\ q.root = p.root
    BY <1>1 DEF Positions
  <2> HIDE DEF q, s, r
  <2>7. Deeper(p.stack, s)
    <3>1. f.next > p.stack[n].next
      <4> DEFINE x == p.stack[n].next
      <4> HIDE DEF x
      <4> QED
        BY <2>4 DEF x
    <3>2. \A i \in 1 .. (n - 1) : i \in 1 .. n /\ i # n
      <4> HIDE DEF n
      <4> QED
        BY <1>2
    <3> HIDE DEF n, p
    <3> QED
      BY <2>0, <2>4, <2>5, <3>1, <3>2 DEF Deeper
  <2>8. Len(s) <= MaxDepth + 2
    <3> HIDE DEF n, p
    <3> QED
      BY <1>2, <1>3, <2>5 DEF MaxDepth
  <2>9. ASSUME NEW i \in 1 .. n
        PROVE  /\ s[i].next <= Len(Nested[s[i].arc]) + 1
               /\ i < n => s[i].next <= Len(Nested[s[i].arc])
    <3>1. /\ i \in 1 .. Len(p.stack) /\ i < Len(p.stack) /\ i \in Nat
          /\ p.stack[i].next <= Len(Nested[p.stack[i].arc])
      <4>1. i \in 1 .. Len(p.stack) /\ i < Len(p.stack) /\ i \in Nat
        <5> HIDE DEF n, p
        <5> QED
          BY <1>2
      <4> QED
        BY <1>3, <4>1
    <3>2. p.stack[i] \in Frames
      BY <1>1, <3>1, ElementOfSeq
    <3>3. Nested[p.stack[i].arc] \in Seq([arc : Archives, size : Nat, read : {"ok", "damaged", "raises"}])
      BY <3>2, ArchivesNest DEF Frames
    <3>4. Len(Nested[p.stack[i].arc]) \in Nat /\ p.stack[i].next \in Nat
      BY <3>2, <3>3, LenProperties DEF Frames
    <3>5. ASSUME NEW x \in Nat, NEW m \in Nat, x <= m PROVE x <= m + 1 /\ x + 1 <= m + 1
      BY <3>5
    <3>6. /\ p.stack[i].next <= Len(Nested[p.stack[i].arc]) + 1
          /\ p.stack[i].next + 1 <= Len(Nested[p.stack[i].arc]) + 1
      BY <3>1, <3>4, <3>5
    <3>7. CASE i = n
      <4>1. ~(i < n)
        <5> HIDE DEF n
        <5> QED
          BY <1>2, <3>7
      <4> QED
        BY <2>4, <2>5, <3>6, <3>7, <4>1
    <3>8. CASE i # n
      BY <2>5, <3>1, <3>6, <3>8
    <3> QED
      BY <3>7, <3>8
  <2>10. Searching(s)
    <3> HIDE DEF n
    <3> QED
      BY <2>5, <2>8, <2>9 DEF Searching
  <2> HIDE DEF n
  <2> QED
    BY <1>3, <2>2, <2>5, <2>6, <2>7, <2>10, SearchGoesOn
<1> QED
  BY <1>4, <1>5

LEMMA RootsGoOn ==
    ASSUME Shape, BudgetInv, TempInv, NEW t \in Tasks, out[t] = "pending" => Within(pos[t]),
           NextRoot(t)
    PROVE  Ahead(t)
<1> DEFINE p == pos[t]
           a == roots[p.root]
           s == <<Frame(a)>>
           q == [p EXCEPT !.stack = s]
<1>1. /\ out[t] = "pending" /\ Chain[at[t]] = "zip" /\ p \in Positions /\ p.stack = <<>>
      /\ Within(p) /\ roots' = roots
  BY DEF NextRoot, Asks, given, TempInv, Typed
<1>2. CASE p.root > Len(roots)
  BY <1>1, <1>2, NextReaderIsAhead DEF NextRoot
<1>3. CASE ~(p.root > Len(roots))
  <2>1. Move(t, q)
    BY <1>3 DEF NextRoot
  <2>2. a \in Archives /\ p.root <= Len(roots)
    <3>1. roots \in Seq(Archives) /\ p.root \in Nat \ {0}
      BY <1>1, ArchivesNest DEF BudgetInv, Counted, ZipPositions
    <3>2. p.root \in 1 .. Len(roots) /\ p.root <= Len(roots)
      BY <1>3, <3>1, LenProperties
    <3> QED
      BY <3>1, <3>2, ElementOfSeq
  <2>3. s \in Seq(Frames) /\ Len(s) = 1 /\ s[1].next = 0 /\ s[1].arc = a
    BY <2>2 DEF Frame, Frames
  <2>4. Searching(s)
    <3>1. Len(Nested[a]) \in Nat
      BY <2>2, ArchivesNest, LenProperties
    <3> HIDE DEF s, a
    <3> QED
      BY <2>3, <3>1 DEF Searching, MaxDepth
  <2>5. Deeper(p.stack, s)
    <3> HIDE DEF s
    <3> QED
      BY <1>1, <2>3, EmptyStack DEF Deeper
  <2>6. /\ q.stack = s /\ q.slot = p.slot /\ q.url = p.url /\ q.tries = p.tries
        /\ q.root = p.root
    BY <1>1 DEF Positions
  <2> HIDE DEF q, s
  <2> QED
    BY <1>1, <2>1, <2>2, <2>3, <2>4, <2>5, <2>6, SearchGoesOn
<1> QED
  BY <1>2, <1>3

LEMMA EntriesGoOn ==
    ASSUME Shape, BudgetInv, TempInv, NEW t \in Tasks, out[t] = "pending" => Within(pos[t]),
           SearchEntries(t)
    PROVE  Ahead(t)
<1> DEFINE p == pos[t]
           n == Len(p.stack)
<1>1. /\ out[t] = "pending" /\ Chain[at[t]] = "zip" /\ p.stack # <<>> /\ p \in Positions
      /\ Within(p) /\ roots' = roots /\ Top(t).next = 0
  BY DEF SearchEntries, Asks, given, TempInv, Typed
<1>2. CASE Backtrack(t)
  BY <1>1, <1>2, BacktrackIsAhead
<1>3. CASE \E o \in {"text", "size_limit", "runtime"}, f \in {None, <<at[t], 0>>} : End(t, o, f)
  BY <1>1, <1>3, EndIsAhead
<1>4. CASE Move(t, [pos[t] EXCEPT !.stack[Depth(t) + 1].next = 1])
  <2> DEFINE e == [p.stack[n] EXCEPT !.next = 1]
             s == [p.stack EXCEPT ![n] = e]
             q == [p EXCEPT !.stack = s]
  <2>1. /\ p.stack \in Seq(Frames) /\ n \in 1 .. n /\ n \in Nat
        /\ Depth(t) + 1 = n /\ p.stack[n] \in Frames /\ p.stack[n].next = 0
    <3>1. /\ n \in Nat \ {0} /\ n \in 1 .. n /\ Depth(t) = n - 1
          /\ Top(t) = p.stack[n] /\ Top(t) \in Frames
      BY <1>1, SearchState
    <3>2. Depth(t) + 1 = n
      <4> HIDE DEF n
      <4> QED
        BY <3>1
    <3> QED
      BY <1>1, <3>1, <3>2, PositionOf
  <2>2. Move(t, q)
    BY <1>4, <2>1
  <2>3. e \in Frames /\ e.arc = p.stack[n].arc /\ e.next = 1
    <3>1. ASSUME NEW x \in Frames
          PROVE  LET y == [x EXCEPT !.next = 1] IN y \in Frames /\ y.arc = x.arc /\ y.next = 1
      BY DEF Frames
    <3> QED
      BY <2>1, <3>1
  <2> HIDE DEF e
  <2>4. /\ s \in Seq(Frames) /\ Len(s) = n /\ s[n] = e
        /\ \A i \in 1 .. n : i # n => s[i] = p.stack[i]
    <3> HIDE DEF n
    <3> QED
      BY <2>1, <2>3, ExceptSeq DEF n
  <2>5. /\ q.stack = s /\ q.slot = p.slot /\ q.url = p.url /\ q.tries = p.tries
        /\ q.root = p.root
    BY <1>1 DEF Positions
  <2> HIDE DEF q, s
  <2>6. Deeper(p.stack, s)
    <3>1. \A i \in 1 .. (n - 1) : i \in 1 .. n /\ i # n
      <4> HIDE DEF n
      <4> QED
        BY <2>1
    <3>2. e.next > p.stack[n].next
      BY <2>1, <2>3
    <3>3. /\ Len(s) \in 1 .. n /\ \A i \in 1 .. (n - 1) : s[i] = p.stack[i]
          /\ s[n].arc = p.stack[n].arc /\ s[n].next > p.stack[n].next
      BY <2>1, <2>3, <2>4, <3>1, <3>2
    <3> QED
      BY <2>4, <3>3 DEF Deeper
  <2>7. Searching(s)
    <3>1. Searching(p.stack) /\ p.root <= Len(roots)
      BY <1>1 DEF Within
    <3>2. Nested[p.stack[n].arc] \in Seq([arc : Archives, size : Nat, read : {"ok", "damaged", "raises"}])
      BY <2>1, ArchivesNest DEF Frames
    <3>3. Len(Nested[s[n].arc]) \in Nat
      BY <2>3, <2>4, <3>2, LenProperties
    <3>4. s[n].next <= Len(Nested[s[n].arc]) + 1
      <4> DEFINE m == Len(Nested[s[n].arc])
      <4> HIDE DEF m
      <4>1. 1 <= m + 1
        BY <3>3 DEF m
      <4> QED
        BY <2>3, <2>4, <4>1 DEF m
    <3>5. ~(n < n)
      <4> HIDE DEF n
      <4> QED
        BY <2>1
    <3>6. ASSUME NEW i \in 1 .. n
          PROVE  /\ s[i].next <= Len(Nested[s[i].arc]) + 1
                 /\ i < n => s[i].next <= Len(Nested[s[i].arc])
      <4>1. CASE i = n
        BY <3>4, <3>5, <4>1
      <4>2. CASE i # n
        BY <2>4, <3>1, <4>2 DEF Searching
      <4> QED
        BY <4>1, <4>2
    <3>7. Len(s) <= MaxDepth + 2
      BY <2>4, <3>1 DEF Searching
    <3> HIDE DEF n
    <3> QED
      BY <2>4, <3>6, <3>7 DEF Searching
  <2>8. p.root <= Len(roots)
    BY <1>1 DEF Within
  <2> QED
    BY <1>1, <2>2, <2>4, <2>5, <2>6, <2>7, <2>8, SearchGoesOn
<1> QED
  BY <1>2, <1>3, <1>4 DEF SearchEntries, Fail

LEMMA NestedGoOn ==
    ASSUME Shape, BudgetInv, TempInv, NEW t \in Tasks, out[t] = "pending" => Within(pos[t]),
           SearchNested(t)
    PROVE  Ahead(t)
<1> DEFINE p == pos[t]
           L == Len(p.stack)
           e == Nested[Top(t).arc][Top(t).next]
           v == Used(t, e.size)
<1>1. /\ out[t] = "pending" /\ Chain[at[t]] = "zip" /\ p.stack # <<>> /\ p \in Positions
      /\ Within(p) /\ roots' = roots /\ Top(t).next > 0
  BY DEF SearchNested, Asks, given, TempInv, Typed
<1>2. CASE Backtrack(t)
  BY <1>1, <1>2, BacktrackIsAhead
<1>3. CASE \E o \in Errors : End(t, o, None)
  BY <1>1, <1>3, EndIsAhead DEF Errors
<1>4. CASE NotHere(t)
  BY <1>1, <1>4, NextReaderIsAhead
<1>5. CASE /\ Move(t, [p EXCEPT !.stack = Append(@, Frame(e.arc)), !.used = v])
           /\ Top(t).next <= Len(Nested[Top(t).arc])
  <2> DEFINE f == Frame(e.arc)
             s == Append(p.stack, f)
             q == [p EXCEPT !.stack = s, !.used = v]
  <2>1. /\ p.stack \in Seq(Frames) /\ L \in Nat \ {0} /\ L \in 1 .. L /\ Top(t) = p.stack[L]
        /\ Top(t) \in Frames /\ L <= MaxDepth + 1
    BY <1>1, PositionOf, SearchState
  <2>2. e.arc \in Archives
    <3>1. Nested[Top(t).arc] \in Seq([arc : Archives, size : Nat, read : {"ok", "damaged", "raises"}])
      BY <2>1, ArchivesNest DEF Frames
    <3>2. Top(t).next \in 1 .. Len(Nested[Top(t).arc])
      <4> DEFINE x == Top(t).next
                 m == Len(Nested[Top(t).arc])
      <4>1. x \in Nat /\ x > 0 /\ m \in Nat /\ x <= m
        BY <1>1, <1>5, <2>1, <3>1, LenProperties DEF Frames
      <4> HIDE DEF x, m
      <4>2. x \in 1 .. m
        BY <4>1
      <4> QED
        BY <4>2 DEF x, m
    <3>3. e \in [arc : Archives, size : Nat, read : {"ok", "damaged", "raises"}]
      BY <3>1, <3>2, ElementOfSeq
    <3> QED
      BY <3>3
  <2>3. f \in Frames /\ f.next = 0 /\ f.arc = e.arc
    BY <2>2 DEF Frame, Frames
  <2>4. Move(t, q)
    BY <1>5
  <2>5. /\ q.stack = s /\ q.slot = p.slot /\ q.url = p.url /\ q.tries = p.tries
        /\ q.root = p.root
    BY <1>1 DEF Positions
  <2> HIDE DEF q, f, e, v
  <2>6. /\ s \in Seq(Frames) /\ Len(s) = L + 1 /\ s[L + 1] = f
        /\ \A i \in 1 .. L : s[i] = p.stack[i]
    BY <2>1, <2>3, AppendProperties
  <2> HIDE DEF s
  <2>7. Deeper(p.stack, s)
    BY <2>6 DEF Deeper
  <2>8. Searching(s)
    <3>1. Searching(p.stack)
      BY <1>1 DEF Within
    <3>2. Len(Nested[f.arc]) \in Nat
      BY <2>2, <2>3, ArchivesNest, LenProperties
    <3>3. 0 <= Len(Nested[f.arc]) + 1
      <4> DEFINE m == Len(Nested[f.arc])
      <4> HIDE DEF m
      <4>1. 0 <= m + 1
        BY <3>2 DEF m
      <4> QED
        BY <4>1 DEF m
    <3>4. ASSUME NEW i \in 1 .. (L + 1)
          PROVE  /\ s[i].next <= Len(Nested[s[i].arc]) + 1
                 /\ i < L + 1 => s[i].next <= Len(Nested[s[i].arc])
      <4>1. i \in 1 .. L \/ (i = L + 1 /\ ~(i < L + 1))
        <5> HIDE DEF L
        <5> QED
          BY <2>1
      <4>2. CASE i = L + 1 /\ ~(i < L + 1)
        BY <2>3, <2>6, <3>3, <4>2
      <4>3. CASE i \in 1 .. L
        <5>1. /\ s[i] = p.stack[i] /\ s[i].next <= Len(Nested[s[i].arc]) + 1
              /\ i < L => s[i].next <= Len(Nested[s[i].arc])
          BY <2>6, <3>1, <4>3 DEF Searching
        <5>2. i = L => s[i].next <= Len(Nested[s[i].arc])
          BY <1>5, <2>1, <5>1
        <5>3. i < L \/ i = L
          <6> HIDE DEF L
          <6> QED
            BY <2>1, <4>3
        <5> QED
          BY <5>1, <5>2, <5>3
      <4> QED
        BY <4>1, <4>2, <4>3
    <3>5. L + 1 <= MaxDepth + 2
      <4> HIDE DEF L
      <4> QED
        BY <2>1 DEF MaxDepth
    <3> HIDE DEF L
    <3> QED
      BY <2>6, <3>4, <3>5 DEF Searching
  <2>9. p.root <= Len(roots)
    BY <1>1 DEF Within
  <2> QED
    BY <1>1, <2>4, <2>5, <2>6, <2>7, <2>8, <2>9, SearchGoesOn
<1> QED
  BY <1>2, <1>3, <1>4, <1>5 DEF SearchNested, Fail, Errors

LEMMA FetchIsAhead ==
    ASSUME ErrorInv, BudgetInv, TempInv, WithinBounds, NEW t \in Tasks, Fetch(t)
    PROVE  Ahead(t)
<1>1. Shape /\ (out[t] = "pending" => Within(pos[t]))
  BY DEF ErrorInv, WithinBounds
<1> QED
  BY <1>1, FilesGoOn, MirrorsGoOn, RootsGoOn, EntriesGoOn, NestedGoOn DEF Fetch

\* localfile.py:22-23, httpclient.py:112, 141, zipreader.py:98, 117-183: no fetch
\* ever gets beyond the last candidate, mirror, attempt or archive, nor deeper
\* than the limit, also where an archive contains itself.
THEOREM NothingBeyondTheEnd == Spec => []WithinBounds
<1>1. BudgetInv /\ Init => WithinBounds
  BY BeginIsWithin DEF Init, WithinBounds
<1>2. ErrorInv /\ BudgetInv /\ TempInv /\ WithinBounds /\ [Next]_vars => WithinBounds'
  <2> SUFFICES ASSUME ErrorInv, BudgetInv, TempInv, WithinBounds, [Next]_vars
               PROVE  WithinBounds'
    OBVIOUS
  <2>1. CASE UNCHANGED vars
    BY <2>1 DEF vars, given, WithinBounds, Within
  <2>2. ASSUME NEW t \in Tasks, Fetch(t) PROVE WithinBounds'
    <3>1. Ahead(t)
      BY <2>2, FetchIsAhead
    <3> QED
      BY <3>1 DEF Ahead, WithinBounds, Within
  <2>3. ASSUME NEW t \in Tasks, LocalPath(t) PROVE WithinBounds'
    <3>1. /\ roots' = roots /\ pos' = pos
          /\ \A u \in Tasks : out'[u] = "pending" => out[u] = "pending"
      BY <2>3 DEF LocalPath, given, ErrorInv, Shape
    <3> QED
      BY <3>1 DEF WithinBounds, Within
  <2>4. ASSUME NEW f \in Files, Edit(f) PROVE WithinBounds'
    BY <2>4 DEF Edit, given, WithinBounds, Within
  <2> QED
    BY <2>1, <2>2, <2>3, <2>4 DEF Next
<1> QED
  BY <1>1, <1>2, ErrorsRemembered, BudgetKept, TempsKept, PTL DEF Spec

\* The same lines, and chain.py:60: every step of a fetch ends it, or gets it
\* further in the chain, in its reader or, depth first, in the archives, and no
\* step of another fetch, nor an edit, throws it back.  With the bounds of
\* NothingBeyondTheEnd it has finitely many steps.
THEOREM EveryStepAdvances ==
    Spec => [][\A t \in Tasks :
                  IF Fetch(t) THEN Advances(t)
                  ELSE out[t] = "pending" => UNCHANGED <<at[t], out[t], pos[t]>>]_vars
<1> DEFINE Step(t) == IF Fetch(t) THEN Advances(t)
                      ELSE out[t] = "pending" => UNCHANGED <<at[t], out[t], pos[t]>>
<1>1. ErrorInv /\ BudgetInv /\ TempInv /\ WithinBounds /\ [Next]_vars
          => [\A t \in Tasks : Step(t)]_vars
  <2> SUFFICES ASSUME ErrorInv, BudgetInv, TempInv, WithinBounds, Next, NEW t \in Tasks,
                      ~Fetch(t), out[t] = "pending"
               PROVE  UNCHANGED <<at[t], out[t], pos[t]>>
    BY FetchIsAhead DEF Ahead
  <2>1. ASSUME NEW u \in Tasks, Fetch(u) PROVE UNCHANGED <<at[t], out[t], pos[t]>>
    BY <2>1, FetchIsAhead DEF Ahead
  <2>2. ASSUME NEW u \in Tasks, LocalPath(u) PROVE UNCHANGED <<at[t], out[t], pos[t]>>
    BY <2>2 DEF LocalPath, ErrorInv, Shape
  <2>3. ASSUME NEW f \in Files, Edit(f) PROVE UNCHANGED <<at[t], out[t], pos[t]>>
    BY <2>3 DEF Edit
  <2> QED
    BY <2>1, <2>2, <2>3 DEF Next
<1> QED
  BY <1>1, ErrorsRemembered, BudgetKept, TempsKept, NothingBeyondTheEnd, PTL DEF Spec
=============================================================================
