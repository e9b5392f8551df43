-------------------------------- MODULE Reads ---------------------------------
(***************************************************************************)
(* The tools that list and delete many memories, side by side: the direct  *)
(* listing (DirectListing), bulk deletion (BulkDelete) and the entities    *)
(* (Entities).  Their models share no variable: a step of the system is a  *)
(* step of one of them.                                                    *)
(***************************************************************************)
EXTENDS Integers

CONSTANTS
    Callers, MaxRows, MaxFailures,
    Matching, ListLimits, BackendLimits, RetryLimit, Window, Default,
    BulkRows, Shown, BulkPageSize, FetchWindow, Paths,
    Ids, EntityPageSize, MaxChanges

VARIABLES
    core, rows, added, honored, pc, limit, items, lasting, answer, undermined, failures,
    path, bulkRows, fading, bulkAdded, bulkPc, bulkPage, deleted, initial, bulkFailures,
    stored, entityPc, kind, page, entities, asked, gone, before, removed, appeared, changes

Listing == INSTANCE DirectListing
Bulk == INSTANCE BulkDelete WITH
    MaxRows <- BulkRows, PageSize <- BulkPageSize, rows <- bulkRows, added <- bulkAdded,
    pc <- bulkPc, page <- bulkPage, failures <- bulkFailures
Entity == INSTANCE Entities WITH PageSize <- EntityPageSize, pc <- entityPc

ASSUME ListAssumption == Listing!ListingAssumption
ASSUME DeleteAssumption == Bulk!BulkAssumption
ASSUME EntitiesAssumption == Entity!EntityAssumption

listingVars == <<core, rows, added, honored, pc, limit, items, lasting, answer, undermined,
                 failures>>
bulkVars == <<path, bulkRows, fading, bulkAdded, bulkPc, bulkPage, deleted, initial, bulkFailures>>
entityVars == <<stored, entityPc, kind, page, entities, asked, gone, before, removed, appeared,
                changes>>
allVars == <<listingVars, bulkVars, entityVars>>

-----------------------------------------------------------------------------
ReadsInit == Listing!Init /\ Bulk!Init /\ Entity!Init

ListingStep == Listing!Next /\ UNCHANGED <<bulkVars, entityVars>>
BulkStep == Bulk!Next /\ UNCHANGED <<listingVars, entityVars>>
EntityStep == Entity!Next /\ UNCHANGED <<listingVars, bulkVars>>

ReadsNext == ListingStep \/ BulkStep \/ EntityStep

ReadsSpec == ReadsInit /\ [][ReadsNext]_allVars

-----------------------------------------------------------------------------
\* The properties of DirectListing, BulkDelete and Entities; see there for what
\* they say of the code.

\* Listings and bulk deletions keep their types; above all no fetch limit is negative
\* (_list_fetch_limit) and no page of a deletion is longer than its limit.
Typed == Listing!TypeOK /\ Bulk!TypeOK

\* An answer that is not marked incomplete is complete (get_memories), and the cached
\* verdict about the Core's limits is right (_backend_honors_list_limit).
ListingHonest == Listing!CompleteIsComplete /\ Listing!CacheRight

\* A deletion that succeeds with a Sidecar, or leaves the scope to the Core, has left
\* nothing of the rows that the store lists for it, the direct listing aside, which is
\* one bounded window; and the report of each says what it has deleted
\* (delete_all_memories).
DeletionHonest == Bulk!DoneMeansGone /\ Bulk!ReportExact

\* An entity that was there all the time is missing from a listing only if one
\* before it was removed meanwhile, and is listed twice only if another one appeared
\* before it; what is deleted when a call fails is a prefix (list_entities,
\* delete_entities).
EntitiesRight ==
    Entity!MissingOnlyIfRemoved /\ Entity!TwiceOnlyIfAppeared /\ Entity!DeletedIsPrefix
================================================================================
