------------------------------- MODULE Discovery -------------------------------
(***************************************************************************)
(* The published discovery document (src/src/state_discovery.rs): signed   *)
(* generations, each with its delivery job, and the publication state that *)
(* points to the desired one and to the one last seen delivered.  A commit *)
(* moves the desired pointer, only recovery moves the current one          *)
(* (state_recovery.rs).                                                    *)
(***************************************************************************)
EXTENDS Naturals

CONSTANTS
    Signatures      \* the signatures a provider may give to one event

VARIABLES
    documents,      \* discovery_desired and discovery_documents, with the
                    \* status of the delivery job of each
    publication     \* discovery_publication_state

discoveryVars == <<documents, publication>>

\* No generation yet.
None == [config |-> 0]
NoPublication == [desired |-> None, current |-> None, updated_at |-> 0]

(***************************************************************************)
(* A generation is identified by the digest of the configuration, of the   *)
(* event and of the projection.  The event carries the second it was made  *)
(* in and a signature, so these three tell generations apart.              *)
(***************************************************************************)
Document(config, at, signature) == [config |-> config, created_at |-> at, signature |-> signature]

\* The job that create_job makes for a document, or finds.
WithJob(document) ==
    IF document \in DOMAIN documents THEN documents
    ELSE [d \in DOMAIN documents \cup {document} |->
            IF d = document THEN "pending" ELSE documents[d]]

\* commit_desired: the desired generation is repeated, or a new one is later
\* than all that happened to the publication state.
commit_desired(document) ==
    IF publication.desired = document THEN "replay"
    ELSE IF document \in DOMAIN documents THEN "binding"
    ELSE IF publication.desired = None \/ document.created_at > publication.updated_at
         THEN "created" ELSE "binding"

\* What a commit that was not refused leaves behind.
Commit(document) ==
    \/ /\ commit_desired(document) = "replay"
       /\ UNCHANGED discoveryVars
    \/ /\ commit_desired(document) = "created"
       /\ documents' = WithJob(document)
       /\ publication' = [publication EXCEPT !.desired = document,
                                             !.updated_at = document.created_at]

\* Faulty variant: a finished job is taken for a delivered one.
PromotableFinished ==
    {d \in DOMAIN documents :
        documents[d] # "pending" /\ publication.desired = d /\ publication.current # d}

\* READ_FIRST_JOB_IDS_SQL, promote_current_if_desired: what recovery promotes.
Promotable ==
    {d \in DOMAIN documents :
        documents[d] = "delivered" /\ publication.desired = d /\ publication.current # d}

\* promote_current refuses a clock behind the publication state.
promote_current(now) ==
    IF Promotable = {} THEN UNCHANGED publication
    ELSE /\ now >= publication.updated_at
         /\ \E d \in Promotable :
                publication' = [publication EXCEPT !.current = d, !.updated_at = now]

\* The outbox carries a job to its end; the promotion is left to recovery.
FinishJob(document) ==
    /\ document \in DOMAIN documents
    /\ documents[document] = "pending"
    /\ \E status \in {"delivered", "exhausted"} :
        documents' = [documents EXCEPT ![document] = status]
    /\ UNCHANGED publication

=============================================================================
