------------------------------ MODULE MmsMedia ------------------------------
(***************************************************************************)
(* The photos of one received MMS: workers claim its event under a lease,  *)
(* store the photos one commit at a time, and must hold the claim again to *)
(* finish.  The event row is locked from the start of the work to the      *)
(* first commit only, so a slow worker may overlap with the next one.      *)
(***************************************************************************)
EXTENDS Naturals, Sequences, FiniteSets, Functions

CONSTANTS
  Keepers,        \* workers that store photos
  Received,       \* messages that may come: the bytes of each photo, in order
  MaxTotal,       \* twilio_mms_max_total_bytes
  MediaAttempts,  \* twilio_mms_max_attempts
  NoKeeper

ASSUME PhotosAssumption ==
  Received \subseteq Seq(Nat) /\ MaxTotal \in Nat /\ MediaAttempts \in Nat /\ NoKeeper \notin Keepers

VARIABLES
  size,     \* the photos of the message that has come
  media,    \* the CommunicationProviderEvent of the message
  stored,   \* photos with a committed EmailAttachment
  keeper    \* where each worker is, the photos it knows as stored, its row lock

mediaVars == <<size, media, stored, keeper>>

Photos == DOMAIN size
Bytes(S) == SumFunctionOnSet(size, S)

Away == [at |-> "idle", has |-> {}, locks |-> FALSE]

MediaInit ==
  /\ size \in Received
  /\ media = [status |-> "pending", attempts |-> 0, holder |-> NoKeeper, stale |-> FALSE]
  /\ stored = {}
  /\ keeper = [w \in Keepers |-> Away]

Ended == {"processed", "rejected", "dead_letter"}
MediaLocked == \E w \in Keepers : keeper[w].locks
HoldsMedia(w) == media.status = "processing" /\ media.holder = w

Closed(status) == [media EXCEPT !.status = status, !.holder = NoKeeper, !.stale = FALSE]

-----------------------------------------------------------------------------
(* Faulty: the event of a dead worker is nobody's. *)
MediaFresh == ~MediaLocked /\ media.status \in {"pending", "retry"}

(* claim_next_twilio_mms_event *)
MediaClaimable ==
  /\ ~MediaLocked
  /\ media.status \in {"pending", "retry"} \/ (media.status = "processing" /\ media.stale)

ClaimMedia(w) ==
  /\ keeper[w].at = "idle" /\ MediaClaimable
  /\ IF media.attempts >= MediaAttempts
     THEN media' = Closed("dead_letter") /\ UNCHANGED keeper
     ELSE /\ media' = [status |-> "processing", attempts |-> media.attempts + 1,
                       holder |-> w, stale |-> FALSE]
          /\ keeper' = [keeper EXCEPT ![w].at = "claimed"]
  /\ UNCHANGED <<size, stored>>

(* require_active_claim, and what retain_twilio_mms_media finds stored.    *)
BeginMedia(w) ==
  /\ keeper[w].at = "claimed"
  /\ keeper' = [keeper EXCEPT ![w] =
       IF HoldsMedia(w) THEN [at |-> "storing", has |-> stored, locks |-> TRUE] ELSE Away]
  /\ UNCHANGED <<size, media, stored>>

Left(w) == Photos \ keeper[w].has
Current(w) == CHOOSE i \in Left(w) : \A j \in Left(w) : i <= j

(* Faulty: each photo is measured alone. *)
FitsAlone(w) == Bytes({Current(w)}) <= MaxTotal

Fits(w) == Bytes(keeper[w].has \cup {Current(w)}) <= MaxTotal

(* Faulty: a photo that cannot be had is passed over. *)
StoreOrSkip(w) ==
  /\ keeper[w].at = "storing" /\ Left(w) # {} /\ Fits(w)
  /\ stored' \in {stored, stored \cup {Current(w)}}
  /\ keeper' = [keeper EXCEPT ![w].has = @ \cup {Current(w)}, ![w].locks = FALSE]
  /\ UNCHANGED <<size, media>>

(* The photo is downloaded, inserted, stored and committed. *)
Store(w) ==
  /\ keeper[w].at = "storing" /\ Left(w) # {} /\ Fits(w)
  /\ Current(w) \notin stored   \* uq_email_attachments_communication_provider_id
  /\ stored' = stored \cup {Current(w)}
  /\ keeper' = [keeper EXCEPT ![w].has = @ \cup {Current(w)}, ![w].locks = FALSE]
  /\ UNCHANGED <<size, media>>

Finish(w) ==
  /\ keeper[w].at = "storing" /\ Left(w) = {} /\ (keeper[w].locks \/ ~MediaLocked)
  /\ media' = IF HoldsMedia(w) THEN Closed("processed") ELSE media
  /\ keeper' = [keeper EXCEPT ![w] = Away]
  /\ UNCHANGED <<size, stored>>

(* finish_rejected_twilio_mms_event: too large, or refused by the scanner. *)
Reject(w) ==
  /\ keeper[w].at = "storing" /\ Left(w) # {} /\ (keeper[w].locks \/ ~MediaLocked)
  /\ media' = IF HoldsMedia(w) THEN Closed("rejected") ELSE media
  /\ keeper' = [keeper EXCEPT ![w] = Away]
  /\ UNCHANGED <<size, stored>>

(* Faulty: a failure is recorded without the claim. *)
FailUnclaimed(w) ==
  /\ keeper[w].at = "storing"
  /\ media' = Closed(IF media.attempts >= MediaAttempts THEN "dead_letter" ELSE "retry")
  /\ keeper' = [keeper EXCEPT ![w] = Away]
  /\ UNCHANGED <<size, stored>>

(* record_twilio_mms_failure: the download, the storage or the insertion   *)
(* of a photo another worker has stored meanwhile.                         *)
FailMedia(w) ==
  /\ keeper[w].at = "storing" /\ (keeper[w].locks \/ ~MediaLocked)
  /\ media' = IF HoldsMedia(w)
              THEN Closed(IF media.attempts >= MediaAttempts THEN "dead_letter" ELSE "retry")
              ELSE media
  /\ keeper' = [keeper EXCEPT ![w] = Away]
  /\ UNCHANGED <<size, stored>>

Die(w) ==
  /\ keeper[w].at # "idle"
  /\ keeper' = [keeper EXCEPT ![w] = Away]
  /\ UNCHANGED <<size, media, stored>>

MediaLeaseExpires ==
  /\ media.status = "processing" /\ ~media.stale /\ ~MediaLocked
  /\ media' = [media EXCEPT !.stale = TRUE]
  /\ UNCHANGED <<size, stored, keeper>>

Keeps(w) == ClaimMedia(w) \/ BeginMedia(w) \/ Store(w) \/ Finish(w) \/ Reject(w) \/ FailMedia(w)
MediaNext == (\E w \in Keepers : Keeps(w) \/ Die(w)) \/ MediaLeaseExpires
MediaSpec == MediaInit /\ [][MediaNext]_mediaVars

-----------------------------------------------------------------------------
MediaTyped ==
  /\ size \in Received
  /\ media \in [status : {"pending", "processing", "retry"} \cup Ended,
                attempts : 0..MediaAttempts, holder : Keepers \cup {NoKeeper}, stale : BOOLEAN]
  /\ stored \subseteq Photos
  /\ keeper \in [Keepers -> [at : {"idle", "claimed", "storing"}, has : SUBSET Photos,
                             locks : BOOLEAN]]

(* A message shown as processed has all its photos, whoever died or was    *)
(* overtaken in between.                                                   *)
PhotosComplete == media.status = "processed" => stored = Photos

(* No set of overlapping or successive workers stores more than a message  *)
(* may hold.                                                               *)
PhotosBounded == Bytes(stored) <= MaxTotal

(* A message's photos are kept: all of them if it was processed, and never *)
(* more than it may hold.                                                  *)
PhotosKept == PhotosComplete /\ PhotosBounded

(* A late worker neither reopens nor relabels what another attempt ended.  *)
MediaEnds == [][media.status \in Ended => media'.status = media.status]_mediaVars

(* Every message is settled: the lease of a dead worker runs out and the   *)
(* attempts are bounded.                                                   *)
MediaSettles == <>(media.status \in Ended)
=============================================================================
