------------------------------ MODULE StoreSpec ------------------------------
(***************************************************************************)
(* The store.Store contract as a specification of its own: AccessStore's   *)
(* updates in any order, by any caller.  An append is of a record sealed   *)
(* as recordAccess seals it; a checkpoint may be any.  A backend is        *)
(* correct when it implements this.                                        *)
(***************************************************************************)
EXTENDS AccessStore

StoreNext ==
    \/ \E e \in StoredEnvelopes : Append(e, Seal(e))
    \/ \E p \in Periods :
         \/ \E cp \in checkpoints'[p] : SaveCheckpoint(p, cp)
         \/ PurgeExpired(p)
    \/ \E s \in Subjects, hold \in BOOLEAN : SetLegalHold(s, hold)

StoreSpecification == StoreInit /\ [][StoreNext]_storeVars
==============================================================================
