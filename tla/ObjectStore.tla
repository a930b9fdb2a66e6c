----------------------------- MODULE ObjectStore -----------------------------
(***************************************************************************)
(* The object stores (runway-storage): files under a directory, written to a  *)
(* temporary file that is renamed (local/object.rs), and a bucket             *)
(* (remote/object.rs).  A call of the local store is one system call at a     *)
(* time; several callers share the store, and the process may die between     *)
(* two steps, which leaves the files as they are.                             *)
(*                                                                            *)
(* A value has two parts, so that half of it can be seen.  A caller goes on   *)
(* writing to the file it has open under any name; a file has one name or     *)
(* none any more.                                                             *)
(***************************************************************************)
EXTENDS Integers, Sequences, FiniteSets

CONSTANTS
    Key,        \* object keys
    Caller,     \* those who call the store
    Temp,       \* Temp[k]: k's path with the extension "tmp"
    Dir,        \* directories
    Base,       \* the directory of the store
    Above,      \* [Dir \ {Base} -> Dir]: the directory a directory is in
    Within,     \* [Dir -> SUBSET Dir]: a directory and all that are in it, however deep
    Home,       \* [Path -> Dir]: the directory a file is in
    Prefix,     \* what lists are asked for
    Begins,     \* [Prefix -> SUBSET Key]: the keys that begin with it
    Names,      \* [Prefix -> the directory or file whose path it is; Gone: none]
    Page        \* how many names one answer of the bucket's list holds

Temps == {Temp[k] : k \in Key}
Path == Key \cup Temps

Gone == "gone"      \* the name of a file that has none

Subdirs(d) == {e \in Dir \ {Base} : Above[e] = d}
InDirectory(x) == {k \in Key : Names[x] \in Dir /\ Home[k] \in Within[Names[x]]}

ASSUME ObjectAssumption ==
    /\ Gone \notin Path /\ \A k \in Key : Temp[k] \in Path
    /\ Base \in Dir /\ Dir \cap Path = {} /\ Gone \notin Dir
    /\ Above \in [Dir \ {Base} -> Dir] /\ Home \in [Path -> Dir]
    /\ \A d \in Dir : Within[d] = {d} \cup UNION {Within[e] : e \in Subdirs(d)}
    /\ \A k \in Key : Home[k] \in Within[Base] /\ Home[Temp[k]] = Home[k]
    /\ Begins \in [Prefix -> SUBSET Key]
    /\ \A x \in Prefix : Names[x] \in Dir \cup Path \cup {Gone} /\ InDirectory(x) \subseteq Begins[x]
    /\ Page \in Nat

VARIABLES
    files,      \* [Path -> the parts it holds; NoFile]
    made,       \* the directories there are
    bucket,     \* [Key -> the stored value; None: no such object]
    call,       \* [Caller -> the call it is in]
    tainted     \* history: keys last renamed to by a put that another overlapped

objectVars == <<files, made, bucket, call, tainted>>

None == <<>>
NoFile == << <<"missing">> >>
Hole == <<"hole">>
Idle == [at |-> "idle"]
Value(k, c) == <<k, c>>
Whole(v) == <<v, v>>

ObjectInit ==
    /\ files = [p \in Path |-> NoFile]
    /\ made = {Base}
    /\ bucket = [k \in Key |-> None]
    /\ call = [c \in Caller |-> Idle]
    /\ tainted = {}

Putting(c) == call[c].at \in {"open", "write", "rename"}
Listing(c) == call[c].at \in {"walk", "listed"}

\* Whether a directory that is being read gives a file that is deleted, renamed or renamed
\* to meanwhile is not specified: such a key is no longer one that was there during the walk.
Unsteady(names) ==
    [c \in Caller |-> IF Listing(c) /\ call[c].at = "walk"
                      THEN [call[c] EXCEPT !.steady = @ \ names] ELSE call[c]]

----------------------------------------------------------------------------
(* Files *)

\* The directories of the key are made.
\* As a bound, puts overlap only when they use the same temporary file; others do not meet.
Put(c, k) ==
    /\ call[c] = Idle
    /\ \A d \in Caller : Putting(d) => Temp[call[d].key] = Temp[k]
    /\ made' = made \cup {d \in Dir : Home[k] \in Within[d]}
    /\ call' = [call EXCEPT ![c] = [at |-> "open", key |-> k, file |-> Gone, part |-> 0, crossed |-> FALSE]]
    /\ UNCHANGED <<files, bucket, tainted>>

\* Two puts whose temporary file is the same are marked.
CrossedWith(c) == {d \in Caller \ {c} :
    call[d].at \in {"write", "rename"} /\ Temp[call[d].key] = Temp[call[c].key]}

\* Mutant: the value is written where it will be read.
PutOpenInPlace(c) ==
    /\ call[c].at = "open"
    /\ files' = [files EXCEPT ![call[c].key] = <<>>]
    /\ call' = [call EXCEPT ![c].at = "write", ![c].file = call[c].key]
    /\ UNCHANGED <<made, bucket, tainted>>

\* The file is made, or emptied if there is one.
PutOpen(c) ==
    /\ call[c].at = "open"
    /\ LET t == Temp[call[c].key]
           others == CrossedWith(c)
       IN  /\ files' = [files EXCEPT ![t] = <<>>]
           /\ call' = [d \in Caller |->
                IF d = c THEN [call[c] EXCEPT !.at = "write", !.file = t, !.crossed = others # {}]
                ELSE IF d \in others THEN [call[d] EXCEPT !.crossed = TRUE] ELSE call[d]]
    /\ UNCHANGED <<made, bucket, tainted>>

\* Each writer has its own offset: what an emptied file lacks before it is a hole.
Written(content, part, v) ==
    [n \in 1..(IF Len(content) > part THEN Len(content) ELSE part) |->
        IF n = part THEN v ELSE IF n <= Len(content) THEN content[n] ELSE Hole]

PutWrite(c) ==
    /\ call[c].at = "write"
    /\ LET part == call[c].part + 1
           f == call[c].file
       IN  /\ files' = IF f = Gone THEN files
                       ELSE [files EXCEPT ![f] = Written(@, part, Value(call[c].key, c))]
           /\ call' = [call EXCEPT ![c].part = part, ![c].at = IF part = 2 THEN "rename" ELSE "write"]
    /\ UNCHANGED <<made, bucket, tainted>>

\* The calls when the file that was named from is named to.
Renamed(calls, from, to) ==
    [d \in Caller |->
        IF calls[d].at \in {"write", "rename"} /\ calls[d].file = from
        THEN [calls[d] EXCEPT !.file = to] ELSE calls[d]]

\* Without the temporary file, which another put has renamed, it fails.
PutRename(c) ==
    /\ call[c].at = "rename"
    /\ LET k == call[c].key
           t == Temp[k]
           rest == [(IF t = k THEN call ELSE Unsteady({t, k})) EXCEPT ![c] = Idle]
       IN  IF files[t] = NoFile
           THEN call' = [call EXCEPT ![c] = Idle] /\ UNCHANGED <<files, tainted>>
           ELSE /\ files' = IF t = k THEN files ELSE [files EXCEPT ![k] = files[t], ![t] = NoFile]
                /\ call' = Renamed(IF t = k THEN rest ELSE Renamed(rest, k, Gone), t, k)
                /\ tainted' = IF call[c].crossed \/ t = k THEN tainted \cup {k} ELSE tainted \ {k}
    /\ UNCHANGED <<made, bucket>>

\* A missing file is no error.
DeleteFile(k) ==
    /\ files' = [files EXCEPT ![k] = NoFile]
    /\ call' = Renamed(Unsteady({k}), k, Gone)
    /\ UNCHANGED <<made, bucket, tainted>>

Present == {p \in Path : files[p] # NoFile}

\* The list reads what the directory of the prefix holds, and nothing if there is no such
\* directory; a file of that name is an error.  As a bound, one caller lists at a time, and only
\* as long as no two puts have stored through one temporary file.
ListFiles(c, x) ==
    /\ call[c] = Idle /\ ~\E d \in Caller : Listing(d)
    /\ tainted = {} /\ Names[x] \notin Present
    /\ LET list(at, dirs) == [at |-> at, of |-> "files", prefix |-> x, dirs |-> dirs, open |-> Gone, left |-> {},
                              found |-> {}, steady |-> Present \cap Begins[x], whole |-> TRUE]
       IN  call' = [call EXCEPT ![c] = IF Names[x] \in made THEN list("walk", {Names[x]}) ELSE list("listed", {})]
    /\ UNCHANGED <<files, made, bucket, tainted>>

Entries(d) == {p \in Present : Home[p] = d} \cup (Subdirs(d) \cap made)

\* read_dir: the directory is open, and what it holds is still to come.
ReadDir(c) ==
    /\ call[c].at = "walk" /\ call[c].open = Gone
    /\ \E d \in call[c].dirs :
        call' = [call EXCEPT ![c].dirs = @ \ {d}, ![c].open = d, ![c].left = Entries(d)]
    /\ UNCHANGED <<files, made, bucket, tainted>>

\* Mutant: subdirectories are not entered.
SkipSubdir(c) ==
    /\ call[c].at = "walk" /\ call[c].open # Gone
    /\ \E e \in call[c].left :
        call' = [call EXCEPT ![c].left = @ \ {e}, ![c].found = @ \cup ({e} \ Dir)]
    /\ UNCHANGED <<files, made, bucket, tainted>>

\* An entry is given; what is made while the directory is read may be given too.
NextEntry(c) ==
    /\ call[c].at = "walk" /\ call[c].open # Gone
    /\ \E e \in call[c].left \cup (Entries(call[c].open) \ call[c].found) :
        call' = [call EXCEPT ![c].left = @ \ {e}, ![c].found = @ \cup {e},
                             ![c].dirs = IF e \in Dir THEN @ \cup {e} ELSE @]
    /\ UNCHANGED <<files, made, bucket, tainted>>

\* No entry is left, but perhaps some whose file was deleted or renamed.
LastEntry(c) ==
    /\ call[c].at = "walk" /\ call[c].open # Gone
    /\ call[c].left \cap (call[c].steady \cup Dir) = {}
    /\ call' = [call EXCEPT ![c].open = Gone, ![c].left = {}]
    /\ UNCHANGED <<files, made, bucket, tainted>>

EndWalk(c) ==
    /\ call[c].at = "walk" /\ call[c].open = Gone /\ call[c].dirs = {}
    /\ call' = [call EXCEPT ![c].at = "listed"]
    /\ UNCHANGED <<files, made, bucket, tainted>>

----------------------------------------------------------------------------
(* The bucket: each request is done or not, and its answer comes or not *)

Upload(c, k) ==
    /\ bucket' \in {bucket, [bucket EXCEPT ![k] = Value(k, c)]}
    /\ UNCHANGED <<files, made, call, tainted>>

DeleteObject(k) ==
    /\ bucket' \in {bucket, [bucket EXCEPT ![k] = None]}
    /\ UNCHANGED <<files, made, call, tainted>>

Objects == {k \in Key : bucket[k] # None}

\* One page is read; an answer that is an error has no items and is an empty list.
ListObjects(c, x) ==
    /\ call[c] = Idle
    /\ LET wanted == Objects \cap Begins[x] IN
       \E found \in SUBSET wanted :
        /\ found = {} \/ Cardinality(found) = Page \/ found = wanted
        /\ Cardinality(found) <= Page
        /\ call' = [call EXCEPT ![c] =
             [at |-> "listed", of |-> "bucket", prefix |-> x, dirs |-> {}, open |-> Gone, left |-> {},
              found |-> found, steady |-> wanted, whole |-> Cardinality(wanted) <= Page /\ found # {}]]
    /\ UNCHANGED <<files, made, bucket, tainted>>

Listed(c) ==
    /\ call[c].at = "listed"
    /\ call' = [call EXCEPT ![c] = Idle]
    /\ UNCHANGED <<files, made, bucket, tainted>>

\* The process dies: files and objects stay.
CallersDie ==
    /\ call' = [c \in Caller |-> Idle]
    /\ UNCHANGED <<files, made, bucket, tainted>>

LocalStep(c) ==
    \/ \E k \in Key : Put(c, k)
    \/ PutOpen(c) \/ PutWrite(c) \/ PutRename(c)
    \/ \E x \in Prefix : ListFiles(c, x)
    \/ ReadDir(c) \/ NextEntry(c) \/ LastEntry(c) \/ EndWalk(c) \/ Listed(c)
    \/ \E k \in Key : call[c] = Idle /\ DeleteFile(k)

RemoteStep(c) ==
    \/ \E k \in Key : call[c] = Idle /\ (Upload(c, k) \/ DeleteObject(k))
    \/ (\E x \in Prefix : ListObjects(c, x)) \/ Listed(c)

----------------------------------------------------------------------------
(* Properties *)

\* What a reader of a key finds; None: not found.
Get(k) == IF files[k] # NoFile THEN files[k] ELSE IF bucket[k] # None THEN Whole(bucket[k]) ELSE None

Found(k) == files[k] # NoFile \/ bucket[k] # None

\* "Write to a temp file then rename for atomicity (no partial reads)", object.rs:34: a
\* reader finds the whole of one value, where no other put used the temporary file of the
\* put that stored it, neither of the same key nor of one that differs in its extension.
\* (Where one did, it can find a part.)  A process
\* that dies leaves its half of a file where nobody but a list finds it.
NoPartialReadsAlone == \A k \in Key \ (Temps \cup tainted) :
    Found(k) => \E c \in Caller : Get(k) = Whole(Value(k, c))

\* "List all keys with the given prefix", traits/object.rs:17: a list has every key with the
\* prefix that was there all the while, though it is not read in one step, and though keys
\* are put, renamed and deleted meanwhile; of the bucket, where one page held the answer.  The
\* local store takes the prefix for a directory, and leaves out the keys that begin with it
\* and are not in that directory.
Answerable(x) == IF x.of = "files" THEN InDirectory(x.prefix) ELSE Key

ListHasAll == \A c \in Caller : call[c].at = "listed" /\ call[c].whole =>
    call[c].steady \cap Answerable(call[c]) \subseteq call[c].found
=============================================================================
