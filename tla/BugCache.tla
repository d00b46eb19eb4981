------------------------------ MODULE BugCache ------------------------------
(***************************************************************************)
(* pkg/cache: a Bugzilla client that keeps what it fetched in a bolt       *)
(* database, one bucket per item, with the revision the item was asked     *)
(* for.  The callers of GetCachedBug, GetCachedBugComments and             *)
(* GetCachedBugHistory run concurrently and name the revision (the time of *)
(* the bug's last change) that they know of.                               *)
(*                                                                         *)
(* Revisions are numbered; the content of an item is the revision of the   *)
(* bug it shows.  Bugzilla and bolt, whose transactions are atomic and     *)
(* survive a crash, are external.                                          *)
(***************************************************************************)
EXTENDS Naturals

CONSTANTS
    BugID,         \* the bugs
    Kind,          \* what is cached of a bug
    BugKind,       \* the bug itself; the other kinds are comments and history
    Caller,        \* the goroutines that use the client
    Nothing,       \* no bytes
    Garbage,       \* bytes that do not decode
    MaxRevision    \* bound: changes of a bug

ASSUME KindAssumption == BugKind \in Kind
ASSUME RevisionAssumption == MaxRevision \in Nat \ {0}
ASSUME NoContentAssumption == {Nothing, Garbage} \cap Nat = {}

Revision == 1..MaxRevision
NoRevision == 0     \* "", of a caller that knows of none
Item == Kind \X BugID

VARIABLES
    revision,   \* Bugzilla: the current revision of each bug
    bucket,     \* bolt: of each item, the keys "revision" and "data"
    pc,         \* a caller: "idle", "get", "fetch" or "set"
    item,       \* what the caller asks for
    asked,      \* the revision it names
    answer,     \* what Bugzilla answered it, Nothing until then
    result      \* what its last call returned, Nothing for an error

cacheVars == <<revision, bucket, pc, item, asked, answer, result>>

Content == Revision \cup {Nothing, Garbage}
Bucket == [revision : Revision \cup {NoRevision}, data : Content]
EmptyBucket == [revision |-> NoRevision, data |-> Nothing]

CacheTypeOK ==
    /\ revision \in [BugID -> Revision]
    /\ bucket \in [Item -> Bucket]
    /\ pc \in [Caller -> {"idle", "get", "fetch", "set"}]
    /\ item \in [Caller -> Item]
    /\ asked \in [Caller -> Revision \cup {NoRevision}]
    /\ answer \in [Caller -> Revision \cup {Nothing}]
    /\ result \in [Caller -> Revision \cup {Nothing}]
    /\ \A c \in Caller : pc[c] = "set" => answer[c] # Nothing

CacheInit ==
    /\ revision = [b \in BugID |-> 1]
    /\ bucket = [i \in Item |-> EmptyBucket]
    /\ pc = [c \in Caller |-> "idle"]
    /\ item \in [Caller -> Item]
    /\ asked = [c \in Caller |-> NoRevision]
    /\ answer = [c \in Caller |-> Nothing]
    /\ result = [c \in Caller |-> Nothing]

-----------------------------------------------------------------------------
\* External: somebody changes a bug, or comments on it.
ChangeBug(b) ==
    /\ revision[b] < MaxRevision
    /\ revision' = [revision EXCEPT ![b] = @ + 1]
    /\ UNCHANGED <<bucket, pc, item, asked, answer, result>>

\* The file is damaged: the bytes of an item no longer decode.
Damage(i) ==
    /\ bucket[i].data \in Revision
    /\ bucket' = [bucket EXCEPT ![i].data = Garbage]
    /\ UNCHANGED <<revision, pc, item, asked, answer, result>>

\* A call begins: the caller has seen the bug at revision r, or knows of none.
Call(c, i, r) ==
    /\ pc[c] = "idle"
    /\ r = NoRevision \/ r <= revision[i[2]]
    /\ pc' = [pc EXCEPT ![c] = "get"]
    /\ item' = [item EXCEPT ![c] = i]
    /\ asked' = [asked EXCEPT ![c] = r]
    /\ result' = [result EXCEPT ![c] = Nothing]
    /\ UNCHANGED <<revision, bucket, answer>>

\* Mutant of Hit: the revision is not compared.
HitAnyRevision(c) ==
    /\ asked[c] # NoRevision
    /\ bucket[item[c]].data # Nothing

\* Get finds bytes: the revision in the bucket is the one asked for.
Hit(c) ==
    /\ asked[c] # NoRevision
    /\ bucket[item[c]].revision = asked[c]
    /\ bucket[item[c]].data # Nothing

Return(c, content) ==
    /\ pc' = [pc EXCEPT ![c] = "idle"]
    /\ result' = [result EXCEPT ![c] = content]
    /\ answer' = [answer EXCEPT ![c] = Nothing]

\* Mutant of ReturnCached: an error of Unmarshal is returned.
ReturnCachedOrError(c) ==
    /\ pc[c] = "get"
    /\ Hit(c)
    /\ Return(c, IF bucket[item[c]].data = Garbage THEN Nothing ELSE bucket[item[c]].data)
    /\ UNCHANGED <<revision, bucket, item, asked>>

\* The cached bytes decode.
ReturnCached(c) ==
    /\ pc[c] = "get"
    /\ Hit(c)
    /\ bucket[item[c]].data # Garbage
    /\ Return(c, bucket[item[c]].data)
    /\ UNCHANGED <<revision, bucket, item, asked>>

\* There are none, or they do not decode.
Miss(c) ==
    /\ pc[c] = "get"
    /\ ~Hit(c) \/ bucket[item[c]].data = Garbage
    /\ pc' = [pc EXCEPT ![c] = "fetch"]
    /\ UNCHANGED <<revision, bucket, item, asked, answer, result>>

\* Bugzilla answers with the item as it is now.
Fetch(c) ==
    /\ pc[c] = "fetch"
    /\ answer' = [answer EXCEPT ![c] = revision[item[c][2]]]
    /\ pc' = [pc EXCEPT ![c] = "set"]
    /\ UNCHANGED <<revision, bucket, item, asked, result>>

\* The call fails; so does one that is cut short before the transaction.
FetchFails(c) ==
    /\ pc[c] \in {"fetch", "set"}
    /\ Return(c, Nothing)
    /\ UNCHANGED <<revision, bucket, item, asked>>

\* The revision the answer is kept under: a bug tells its own.
KeptUnder(c) == IF item[c][1] = BugKind THEN answer[c] ELSE asked[c]

\* Set, in one transaction; without a revision there is nothing to keep.
Store(c) ==
    /\ pc[c] = "set"
    /\ bucket' = IF KeptUnder(c) = NoRevision THEN bucket
                 ELSE [bucket EXCEPT ![item[c]] =
                          [revision |-> KeptUnder(c), data |-> answer[c]]]
    /\ Return(c, answer[c])
    /\ UNCHANGED <<revision, item, asked>>

\* The transaction fails, which Set does not tell, or there is no database.
StoreFails(c) ==
    /\ pc[c] = "set"
    /\ Return(c, answer[c])
    /\ UNCHANGED <<revision, bucket, item, asked>>

CacheNext ==
    \/ \E b \in BugID : ChangeBug(b)
    \/ \E i \in Item : Damage(i)
    \/ \E c \in Caller :
         \/ \E i \in Item, r \in Revision \cup {NoRevision} : Call(c, i, r)
         \/ ReturnCached(c) \/ Miss(c) \/ Fetch(c) \/ FetchFails(c)
         \/ Store(c) \/ StoreFails(c)

CacheSpec == CacheInit /\ [][CacheNext]_cacheVars

-----------------------------------------------------------------------------
(***************************************************************************)
(* No call returns an item older than the revision its caller knows of,    *)
(* although slow callers overwrite the bucket with older revisions, and    *)
(* although comments and history are kept under the caller's revision and  *)
(* not under their own.                                                    *)
(***************************************************************************)
NeverOlder ==
    \A c \in Caller :
        result[c] # Nothing => result[c] >= asked[c]

(***************************************************************************)
(* The database never holds an item that is older than the revision it is  *)
(* kept under, nor one newer than the bug.                                 *)
(***************************************************************************)
BucketsFresh ==
    \A i \in Item : bucket[i].data \in Revision =>
        /\ bucket[i].revision <= bucket[i].data
        /\ bucket[i].data <= revision[i[2]]

\* What the callers on their way know: it was true when they learnt it.
CallersFresh ==
    \A c \in Caller :
        /\ pc[c] # "idle" => asked[c] <= revision[item[c][2]]
        /\ pc[c] = "set" => asked[c] <= answer[c] /\ answer[c] <= revision[item[c][2]]

\* The inductive invariant the proofs of StandaloneProofs use.
CacheInv == CacheTypeOK /\ BucketsFresh /\ CallersFresh /\ NeverOlder

(***************************************************************************)
(* A call that ends returns an item no older than the revision its caller  *)
(* knows of, or an error that comes from Bugzilla: bytes that do not       *)
(* decode do not keep the item from being fetched.                         *)
(***************************************************************************)
CallsAnswer ==
    [][ \A c \in Caller : pc[c] # "idle" /\ pc'[c] = "idle" =>
          \/ result'[c] \in Revision /\ result'[c] >= asked[c]
          \/ result'[c] = Nothing /\ pc[c] # "get" ]_cacheVars
=============================================================================
