------------------------------ MODULE Fetching ------------------------------
(***************************************************************************)
(* ReaderChain.fetch with the readers behind it (reader/): local files,    *)
(* ZIP archives and HTTP sources, tried in the order of the chain.  Only   *)
(* MibNotFoundError moves on to the next reader.                           *)
(*                                                                         *)
(* Several fetches run as tasks of one event loop: a task keeps the loop   *)
(* until it awaits an HTTP response.  Files in the local directories may   *)
(* come, change and go at any time.                                        *)
(***************************************************************************)
EXTENDS Naturals, Sequences, FiniteSets

CONSTANTS
    Tasks,       \* fetches of one MIB name each
    Chain,       \* the readers in order: "file", "zip" or "http"
    Slots,       \* a FileReader tries the candidates 1..Slots (dir x suffix)
    Urls,        \* an HttpReader tries the templates 1..Urls
    Retries,     \* HttpReader._retries
    MaxSize,     \* max_size of the readers
    Archives,    \* ZIP files, nested ones included
    Layouts,     \* the archives a ZipReader may be given, in order
    Names,       \* MIB names
    Mib,         \* Mib[n][a]: the entry of archive a that has the name n
    Nested,      \* Nested[a]: the ZIP entries of a, in order, and how they
                  \* read: "ok", "damaged" (BadZipFile) or "raises" (encrypted,
                  \* in an unknown format or corrupt: any other exception)
    Bad,         \* archives that are missing or damaged where the search starts
    Edits,       \* bound: changes of local files
    None

FileStates == {"absent", "text", "large", "unreadable"}
Replies == {"ok", "absent", "server", "garbled", "transport", "large", "runtime"}
Errors == {"size_limit", "network", "os_error", "runtime"}
Readers == 1 .. Len(Chain)
Files == {i \in Readers : Chain[i] = "file"} \X (1 .. Slots)
MaxDepth == 4
Limit == 4 * MaxSize   \* _NESTED_AGGREGATE_MULTIPLIER * max_size

ASSUME ChainIsNotEmpty ==
    /\ Chain \in Seq({"file", "zip", "http"})
    /\ Len(Chain) > 0

ASSUME BoundsAreNumbers ==
    /\ Slots \in Nat /\ Urls \in Nat /\ Retries \in Nat
    /\ MaxSize \in Nat /\ Edits \in Nat

ASSUME ArchivesNest ==
    /\ Layouts \subseteq Seq(Archives)
    /\ Mib \in [Names -> [Archives -> {"none", "text", "large", "damaged", "raises"}]]
    /\ Nested \in [Archives -> Seq([arc : Archives, size : Nat,
                                     read : {"ok", "damaged", "raises"}])]
    /\ Bad \subseteq Archives

VARIABLES
    files,     \* what the local directories hold
    edits,     \* changes so far
    roots,     \* ZipReader._zip_paths
    want,      \* task -> mib_name
    loop,      \* the task that has the event loop, or None
    at,        \* task -> position in the chain
    out,       \* task -> "pending", "text", "not_found" or an error
    pos,       \* task -> how far the current reader is: see Begin
    by,        \* task -> which reader (and which file of it) supplied the text
    path,      \* task -> what local_path() said after the fetch
    temps,     \* temporary archives on disk: <<task, depth>>
    seen,      \* history: task -> what went wrong so far, and in which reader
    unpacked,  \* history: task -> bytes the current ZipReader has unpacked
    disturbed  \* history: tasks during which a local file changed

history == <<seen, unpacked, disturbed>>
given == <<roots, want>>
vars == <<files, edits, given, loop, at, out, pos, by, path, temps, history>>

\* FileReader: candidate, and whether is_file() said yes.  HttpReader:
\* template, attempts made for it, last_network.  ZipReader: archive of
\* _zip_paths, the frames of _search_zip, and budget._used.
Begin == [slot |-> 1, there |-> FALSE,
          url |-> 1, tries |-> 0, net |-> FALSE,
          root |-> 1, stack |-> <<>>, used |-> 0]

Init ==
    /\ files \in [Files -> FileStates]
    /\ edits = 0
    /\ roots \in Layouts
    /\ want \in [Tasks -> Names]
    /\ loop = None
    /\ at = [t \in Tasks |-> 1]
    /\ out = [t \in Tasks |-> "pending"]
    /\ pos = [t \in Tasks |-> Begin]
    /\ by = [t \in Tasks |-> None]
    /\ path = [t \in Tasks |-> None]
    /\ temps = {}
    /\ seen = [t \in Tasks |-> {}]
    /\ unpacked = [t \in Tasks |-> 0]
    /\ disturbed = {}

\* t is inside fetch() of a reader of this kind, and has the event loop.
Asks(t, kind) ==
    /\ out[t] = "pending"
    /\ Chain[at[t]] = kind
    /\ loop \in {t, None}

Move(t, p) ==
    /\ pos' = [pos EXCEPT ![t] = p]
    /\ loop' = t
    /\ UNCHANGED <<at, out, by>>

\* fetch() ends with a text or an error that is not MibNotFoundError.
End(t, o, supplier) ==
    /\ out' = [out EXCEPT ![t] = o]
    /\ by' = [by EXCEPT ![t] = supplier]
    /\ pos' = [pos EXCEPT ![t] = Begin]
    /\ loop' = None
    /\ UNCHANGED at

Fail(t, o) == End(t, o, None)

\* MibNotFoundError: ReaderChain.fetch asks the next reader, or re-raises.
NotHere(t) ==
    IF at[t] < Len(Chain)
    THEN /\ at' = [at EXCEPT ![t] = @ + 1]
         /\ pos' = [pos EXCEPT ![t] = Begin]
         /\ loop' = t
         /\ UNCHANGED <<out, by>>
    ELSE End(t, "not_found", None)

Met(t, what) == seen' = [seen EXCEPT ![t] = @ \cup {<<at[t], what>>}]
-----------------------------------------------------------------------------
(* FileReader.fetch                                                        *)
LookForFile(t) ==
    LET p == pos[t] IN
    /\ Asks(t, "file")
    /\ ~p.there
    /\ IF p.slot > Slots
       THEN NotHere(t)
       ELSE Move(t, IF files[<<at[t], p.slot>>] = "absent"
                    THEN [p EXCEPT !.slot = @ + 1]
                    ELSE [p EXCEPT !.there = TRUE])
    /\ UNCHANGED <<files, edits, given, path, temps, history>>

\* The file may have changed since is_file(); the size is taken from what is
\* read.  Any bytes decode, as UTF-8 or as latin-1.
OpenFile(t) ==
    LET f == <<at[t], pos[t].slot>> IN
    /\ Asks(t, "file")
    /\ pos[t].there
    /\ \/ /\ files[f] \in {"absent", "unreadable"}
          /\ Fail(t, "os_error")
          /\ Met(t, "failed")
       \/ /\ files[f] = "large"
          /\ Fail(t, "size_limit")
          /\ Met(t, "oversize")
       \/ /\ files[f] = "text"
          /\ End(t, "text", f)
          /\ UNCHANGED seen
    /\ UNCHANGED <<files, edits, given, path, temps, unpacked, disturbed>>
-----------------------------------------------------------------------------
(* HttpReader.fetch, _fetch_url_with_retry and _fetch_url                  *)

\* Mutant: the last answer decides, whatever the templates before it said.
ForgetNet(p) == [p EXCEPT !.url = @ + 1, !.tries = 0, !.net = FALSE]

NextUrl(p) == [p EXCEPT !.url = @ + 1, !.tries = 0]

\* Mutant: a retry starts over with the first mirror.
StartOver(p) == [p EXCEPT !.url = 1]

\* stop_after_attempt(Retries): another attempt after this one.
Retry(p) == [p EXCEPT !.tries = @ + 1]

\* The loop is free while the request is on its way; the task resumes with
\* one of the replies.
Respond(t) ==
    LET p == pos[t]
        resume(q) == /\ pos' = [pos EXCEPT ![t] = q]
                     /\ loop' = None
                     /\ UNCHANGED <<at, out, by>>
    IN
    /\ Asks(t, "http")
    /\ p.url <= Urls
    /\ \E reply \in Replies :
        \/ /\ reply = "ok"
           /\ End(t, "text", <<at[t], 0>>)
           /\ UNCHANGED seen
        \/ /\ reply = "absent"   \* 404 or 410
           /\ resume(NextUrl(p))
           /\ UNCHANGED seen
        \/ /\ reply = "transport"
           /\ p.tries + 1 < Retries
           /\ resume(Retry(p))
           /\ UNCHANGED seen
        \/ /\ \/ reply \in {"server", "garbled"}
              \/ reply = "transport" /\ p.tries + 1 >= Retries
           /\ resume([NextUrl(p) EXCEPT !.net = TRUE])
           /\ Met(t, "failed")
        \/ /\ reply = "large"
           /\ Fail(t, "size_limit")
           /\ Met(t, "oversize")
        \/ /\ reply = "runtime"  \* outside `async with`, or client closed
           /\ Fail(t, "runtime")
           /\ Met(t, "failed")
    /\ UNCHANGED <<files, edits, given, path, temps, unpacked, disturbed>>

\* A failure of any template outweighs the 404s of the others.
NoMoreUrls(t) ==
    /\ Asks(t, "http")
    /\ pos[t].url > Urls
    /\ IF pos[t].net THEN Fail(t, "network") ELSE NotHere(t)
    /\ UNCHANGED <<files, edits, given, path, temps, history>>
-----------------------------------------------------------------------------
(* ZipReader.fetch and _search_zip: a frame is an archive being searched   *)
(* and the next of its nested archives (0: the MIB entries come first).    *)
Frame(a) == [arc |-> a, next |-> 0]
Depth(t) == Len(pos[t].stack) - 1
Top(t) == pos[t].stack[Len(pos[t].stack)]

\* Mutant: the temporary archives are removed after a fruitless search only.
UnwindNothing(t) == temps' = temps

\* The finally clauses of all frames run when a text or an error comes up.
Unwind(t) == temps' = temps \ {<<t, d>> : d \in 1 .. Depth(t)}

NextRoot(t) ==
    LET p == pos[t] IN
    /\ Asks(t, "zip")
    /\ p.stack = <<>>
    /\ IF p.root > Len(roots)
       THEN NotHere(t)
       ELSE Move(t, [p EXCEPT !.stack = <<Frame(roots[p.root])>>])
    /\ unpacked' = IF p.root = 1 THEN [unpacked EXCEPT ![t] = 0] ELSE unpacked
    /\ UNCHANGED <<files, edits, given, path, temps, seen, disturbed>>

\* The frame on top has its next archive to search.
Advanced(stack) == [stack EXCEPT ![Len(stack)].next = @ + 1]

\* _search_zip returns None: the archive's temporary file is removed and its
\* parent, or fetch(), goes on with the next one.
Backtrack(t) ==
    LET p == pos[t]
        n == Depth(t)
    IN  /\ Move(t, IF n = 0
                   THEN [p EXCEPT !.stack = <<>>, !.root = @ + 1]
                   ELSE [p EXCEPT !.stack = Advanced(SubSeq(p.stack, 1, n))])
        /\ temps' = temps \ {<<t, n>>}

SearchEntries(t) ==
    LET a == Top(t).arc IN
    /\ Asks(t, "zip")
    /\ pos[t].stack # <<>>
    /\ Top(t).next = 0
    /\ \/ /\ Depth(t) > MaxDepth \/ a \in Bad \/ Mib[want[t]][a] = "damaged"
          /\ Backtrack(t)
          /\ UNCHANGED seen
       \/ /\ Depth(t) <= MaxDepth /\ a \notin Bad
          /\ \/ /\ Mib[want[t]][a] = "text"
                /\ End(t, "text", <<at[t], 0>>)
                /\ Unwind(t)
                /\ UNCHANGED seen
             \/ /\ Mib[want[t]][a] = "large"
                /\ Fail(t, "size_limit")
                /\ Unwind(t)
                /\ Met(t, "oversize")
             \/ /\ Mib[want[t]][a] = "raises"
                /\ Fail(t, "runtime")
                /\ Unwind(t)
                /\ Met(t, "failed")
             \/ /\ Mib[want[t]][a] = "none"
                /\ Move(t, [pos[t] EXCEPT !.stack[Depth(t) + 1].next = 1])
                /\ UNCHANGED <<temps, seen>>
    /\ UNCHANGED <<files, edits, given, path, unpacked, disturbed>>

\* Mutant: the bytes are compared with the cap, and never added up.
UsedAlone(t, size) == size

\* budget._used once the bytes of the entry are charged.
Used(t, size) == pos[t].used + size

SearchNested(t) ==
    LET p == pos[t]
        a == Top(t).arc
        e == Nested[a][Top(t).next]
    IN
    /\ Asks(t, "zip")
    /\ p.stack # <<>>
    /\ Top(t).next > 0
    /\ \/ /\ Top(t).next <= Len(Nested[a]) => e.read = "damaged"
          /\ Backtrack(t)
          /\ UNCHANGED <<seen, unpacked>>
       \/ /\ Top(t).next <= Len(Nested[a]) /\ e.read = "raises"
          /\ Fail(t, "runtime")
          /\ Unwind(t)
          /\ Met(t, "failed")
          /\ UNCHANGED unpacked
       \/ /\ Top(t).next <= Len(Nested[a]) /\ e.read = "ok"
          /\ \/ /\ e.size > MaxSize
                /\ Fail(t, "size_limit")
                /\ Unwind(t)
                /\ Met(t, "oversize")
                /\ UNCHANGED unpacked
             \/ /\ e.size <= MaxSize
                /\ Used(t, e.size) > Limit    \* _NestedScanBudgetError
                /\ NotHere(t)
                /\ Unwind(t)
                /\ Met(t, "tripped")
                /\ UNCHANGED unpacked
             \/ /\ e.size <= MaxSize
                /\ Used(t, e.size) <= Limit
                /\ Move(t, [p EXCEPT !.stack = Append(@, Frame(e.arc)),
                                     !.used = Used(t, e.size)])
                /\ temps' = temps \cup {<<t, Len(p.stack)>>}
                /\ unpacked' = [unpacked EXCEPT ![t] = @ + e.size]
                /\ UNCHANGED seen
             \/ /\ e.size <= MaxSize
                /\ Used(t, e.size) <= Limit
                /\ Fail(t, "os_error")        \* the temporary file stays
                /\ temps' = (temps \ {<<t, d>> : d \in 1 .. Depth(t)})
                              \cup {<<t, Len(p.stack)>>}
                /\ Met(t, "failed")
                /\ UNCHANGED unpacked
    /\ UNCHANGED <<files, edits, given, path, disturbed>>
-----------------------------------------------------------------------------
\* FileReader.local_path, over the readers in order: the first file there is.
Mirrored == {f \in Files : files[f] # "absent"}

\* Mutant: local_path tries the suffixes in another order than fetch().
FirstBySuffix(S) == CHOOSE f \in S : \A g \in S : f[2] > g[2] \/ (f[2] = g[2] /\ f[1] <= g[1])

First(S) == CHOOSE f \in S : \A g \in S : f[1] < g[1] \/ (f[1] = g[1] /\ f[2] <= g[2])

\* The resolver asks for the path once fetch() has returned a text.
LocalPath(t) ==
    /\ out[t] = "text"
    /\ out' = [out EXCEPT ![t] = "reported"]
    /\ path' = [path EXCEPT ![t] = IF Mirrored = {} THEN None ELSE First(Mirrored)]
    /\ UNCHANGED <<files, edits, given, loop, at, pos, by, temps, history>>

\* Somebody writes, replaces or removes a local file.
Edit(f) ==
    /\ edits < Edits
    /\ edits' = edits + 1
    /\ \E s \in FileStates \ {files[f]} : files' = [files EXCEPT ![f] = s]
    /\ disturbed' = disturbed \cup {t \in Tasks : out[t] \in {"pending", "text"}}
    /\ UNCHANGED <<given, loop, at, out, pos, by, path, temps, seen, unpacked>>

Fetch(t) ==
    \/ LookForFile(t) \/ OpenFile(t)
    \/ Respond(t) \/ NoMoreUrls(t)
    \/ NextRoot(t) \/ SearchEntries(t) \/ SearchNested(t)

Next ==
    \/ \E t \in Tasks : Fetch(t) \/ LocalPath(t)
    \/ \E f \in Files : Edit(f)

Spec == Init /\ [][Next]_vars

\* The event loop runs every task, and every request is answered or fails
\* (the client has a timeout).
FairSpec == Spec /\ \A t \in Tasks : WF_vars(Fetch(t))
-----------------------------------------------------------------------------
\* The temporary archives of a task are those of the frames it is in, at most
\* one per level of nesting; a fetch that ends leaves none behind, unless the
\* disk refused the bytes of one (zipreader.py:173-181).  The unlink in the
\* finally clause, of a file the process has just made, is taken to succeed.
TempsAreOwned ==
    \A t \in Tasks : LET D == {d \in 0 .. MaxDepth + 2 : <<t, d>> \in temps} IN
        /\ Cardinality(D) <= MaxDepth + 1
        /\ out[t] = "pending" => D = 1 .. Depth(t)
        /\ out[t] \notin {"pending", "os_error"} => D = {}

FetchingInv ==
    /\ files \in [Files -> FileStates]
    /\ edits \in 0 .. Edits
    /\ roots \in Layouts
    /\ want \in [Tasks -> Names]
    /\ loop \in Tasks \cup {None}
    /\ at \in [Tasks -> Readers]
    /\ out \in [Tasks -> {"pending", "text", "reported", "not_found"} \cup Errors]
    /\ \A t \in Tasks : out[t] \in {"text", "reported"} => by[t][1] = at[t]
    /\ TempsAreOwned

\* chain.py:6-12, httpclient.py:42-55: an oversized text ends the fetch as
\* MibSizeLimitError; a failure is never reported as a missing MIB (which the
\* resolver would answer from its cache), and no later reader hides it.
NoErrorIsPassedOver ==
    \A t \in Tasks : \A s \in seen[t] :
        /\ s[2] = "oversize" => out[t] = "size_limit"
        /\ s[2] = "failed" => s[1] = at[t] /\ out[t] # "not_found"

\* zipreader.py:16-22, 40-45: one fetch unpacks at most 4 * max_size bytes of
\* nested archives, and is cut short only if it would itself unpack more.
ScanBudget ==
    [][\A t \in Tasks :
        /\ unpacked'[t] <= Limit
        /\ <<at[t], "tripped">> \in seen'[t] \ seen[t] =>
              unpacked[t] + Nested[Top(t).arc][Top(t).next].size > Limit]_vars

\* chain.py:79-82: the path reported for a module is the file that supplied
\* it.  That takes a chain that asks local files first, as the command line
\* builds it, and directories nobody changes in the meantime.
LocalFirst ==
    \A i, j \in Readers : Chain[i] = "file" /\ Chain[j] # "file" => i < j

PathOfSupplier ==
    \A t \in Tasks : LocalFirst /\ out[t] = "reported" /\ t \notin disturbed =>
        path[t] = IF by[t] \in Files THEN by[t] ELSE None

\* Retries and nested archives end: every fetch returns or raises.
Termination == \A t \in Tasks : <>(out[t] # "pending")
=============================================================================
