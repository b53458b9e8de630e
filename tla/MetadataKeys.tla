---------------------------- MODULE MetadataKeys ----------------------------
(***************************************************************************)
(* The metadata keys of one organization: created, updated attribute by    *)
(* attribute, deleted, and listed page by page.  An update reads the row   *)
(* and writes it back in one READ COMMITTED transaction; a listing is one  *)
(* query per page.  In between, other requests run.                        *)
(*                                                                         *)
(* Names are numbers in the order the database sorts them.  Core confirms  *)
(* the organization before a key is created or listed; requests that are   *)
(* refused change nothing.                                                 *)
(***************************************************************************)
EXTENDS Naturals, Sequences, FiniteSets
LOCAL INSTANCE SequencesExt

CONSTANTS
  MaxName,   \* bound: names are 1..MaxName
  Values,    \* what an attribute may hold
  Null,      \* no value, and in an update body: clear the attribute
  Updaters,  \* concurrent update requests
  PerPages   \* page sizes a caller may ask for

Names == 1..MaxName
Attributes == {"description", "pattern"}
Key == [Attributes -> Values \cup {Null}]
Absent == [a \in {} |-> Null]

VARIABLES
  keys,    \* metadata_keys: name -> attributes
  update,  \* per update request: its body and the row it read
  listing, \* a caller's listing: page size, token, what it got
  lasted,  \* names that have existed since that listing began
  deleted  \* the last answer to a delete: whether a row was there, the status

vars == <<keys, update, listing, lasted, deleted>>

Existing == {n \in Names : keys[n] # Absent}
NoUpdate == [pc |-> "idle"]
NoListing == [pc |-> "idle", token |-> 0, got |-> <<>>, size |-> 0]
NoDelete == [found |-> TRUE, status |-> 204]

Init ==
  /\ keys = [n \in Names |-> Absent]
  /\ update = [u \in Updaters |-> NoUpdate]
  /\ listing = NoListing
  /\ lasted = {}
  /\ deleted = NoDelete

-----------------------------------------------------------------------------
\* The primary key refuses a name that exists.
InsertRow(n, k) == keys[n] = Absent /\ keys' = [keys EXCEPT ![n] = k]

\* DELETE removes what there is and reports nothing.
DeleteRow(n) == keys' = [keys EXCEPT ![n] = Absent]

CreateMetadataKey(n, k) ==
  /\ InsertRow(n, k)
  /\ UNCHANGED <<update, listing, lasted, deleted>>

DeleteMetadataKey(n) ==
  /\ DeleteRow(n)
  /\ lasted' = lasted \ {n}
  /\ deleted' = [found |-> keys[n] # Absent, status |-> 204]
  /\ UNCHANGED <<update, listing>>

\* GetMetadataKey, inside the transaction of the update
ReadForUpdate(u, n, body) ==
  /\ update[u] = NoUpdate /\ keys[n] # Absent
  /\ update' = [update EXCEPT ![u] = [pc |-> "read", name |-> n, body |-> body, row |-> keys[n]]]
  /\ UNCHANGED <<keys, listing, lasted, deleted>>

\* applyNullableStringUpdate: what the body leaves out stays as it was read.
Applied(row, body) == [a \in Attributes |-> IF a \in DOMAIN body THEN body[a] ELSE row[a]]

\* UPDATE ... WHERE name: a key that is gone is not found.
RowAffected(n) == keys[n] # Absent

UpdateMetadataKey(u) ==
  LET n == update[u].name
  IN  /\ update[u].pc = "read" /\ RowAffected(n)
      /\ keys' = [keys EXCEPT ![n] = Applied(update[u].row, update[u].body)]
      /\ update' = [update EXCEPT ![u] = NoUpdate]
      /\ UNCHANGED <<listing, lasted, deleted>>

UpdateNotFound(u) ==
  /\ update[u].pc = "read" /\ ~RowAffected(update[u].name)
  /\ update' = [update EXCEPT ![u] = NoUpdate]
  /\ UNCHANGED <<keys, listing, lasted, deleted>>

-----------------------------------------------------------------------------
FromToken(token) == {n \in Existing : n >= token}

\* WHERE name > token
AfterToken(token) == {n \in Existing : n > token}

Limit(size) == IF size < 1 THEN 1 ELSE size

\* LIMIT one more row than the page: it tells that there is a next page.
NextPageToken(rows, size) == IF Len(rows) > Limit(size) THEN rows[Limit(size)] ELSE 0

ListMetadataKeys(token, size) ==
  LET rows == SetToSortSeq(AfterToken(token), LAMBDA n, m : n < m)
  IN  [items |-> SubSeq(rows, 1, IF Len(rows) < Limit(size) THEN Len(rows) ELSE Limit(size)),
       next  |-> NextPageToken(rows, size)]

Listed(l, size) ==
  LET p == ListMetadataKeys(l.token, size)
  IN  [pc |-> IF p.next = 0 THEN "done" ELSE "paging", token |-> p.next,
       got |-> l.got \o p.items, size |-> size]

BeginListing(size) ==
  /\ listing.pc # "paging"
  /\ listing' = Listed(NoListing, size)
  /\ lasted' = Existing
  /\ UNCHANGED <<keys, update, deleted>>

NextPage ==
  /\ listing.pc = "paging"
  /\ listing' = Listed(listing, listing.size)
  /\ UNCHANGED <<keys, update, lasted, deleted>>

\* An update body names some attributes; null clears one.
UpdateBodies == UNION {[A -> Values \cup {Null}] : A \in SUBSET Attributes}

Next ==
  \/ \E n \in Names, k \in Key : CreateMetadataKey(n, k)
  \/ \E n \in Names : DeleteMetadataKey(n)
  \/ \E u \in Updaters :
       \/ \E n \in Names, body \in UpdateBodies : ReadForUpdate(u, n, body)
       \/ UpdateMetadataKey(u) \/ UpdateNotFound(u)
  \/ \E size \in PerPages : BeginListing(size)
  \/ NextPage

Spec == Init /\ [][Next]_vars

-----------------------------------------------------------------------------
(* Properties                                                              *)

\* A finished listing has no name twice, and has every key that existed from its
\* first page to its last, whatever was created and deleted between the pages and
\* whatever page size was asked for, zero too (ListMetadataKeys).
ListingComplete ==
  listing.pc = "done" =>
    /\ \A i, j \in 1..Len(listing.got) : i < j => listing.got[i] < listing.got[j]
    /\ \A n \in lasted : \E i \in 1..Len(listing.got) : listing.got[i] = n

\* An update that was under way when its key was deleted does not bring the key
\* back: only a creation adds one (UpdateMetadataKey).
UpdateNeverCreatesStep ==
  \A u \in Updaters : update[u] # NoUpdate /\ update'[u] = NoUpdate =>
    \A n \in Names : keys[n] = Absent => keys'[n] = Absent
UpdateNeverCreates == [][UpdateNeverCreatesStep]_vars

\* An update changes the attributes its body names, and no other: "The request body
\* should contain the updated attributes" (UpdateMetadataKey).
UpdateIsPartialStep ==
  \A u \in Updaters : update[u] # NoUpdate /\ update'[u] = NoUpdate =>
    \A n \in Names : keys[n] # Absent =>
      \A a \in Attributes \ DOMAIN update[u].body : keys'[n][a] = keys[n][a]
UpdateIsPartial == [][UpdateIsPartialStep]_vars

\* Deleting a key that does not exist is answered 404 (DeleteMetadataKey).
DeleteReportsAbsence == ~deleted.found => deleted.status = 404
=============================================================================
