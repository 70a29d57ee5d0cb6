----------------------------- MODULE RefusedSends -----------------------------
(***************************************************************************)
(* AutomaticSending with a history of what has held a claimed follow-up    *)
(* back since it was claimed.  The checks before a send are three reads    *)
(* with the owner's changes between them, so what they promise is not that *)
(* nothing holds the follow-up when it is sent, but that nothing has held  *)
(* it all along.                                                           *)
(***************************************************************************)
EXTENDS AutomaticSending

VARIABLE standing   \* what has stood against each worker's claim since it was made

refusedVars == <<sendVars, standing>>

Refusals ==
    [k \in Keys |->
       {x \in {"not pending", "mix", "manual only", "draft", "too early",
               "archived", "do not contact", "stopped", "switched off"} :
          CASE x = "not pending"    -> row[k].status # "PENDING"
            [] x = "mix"            -> setup.mix # "ACTIVE"
            [] x = "manual only"    -> row[k].manualOnly
            [] x = "draft"          -> k \in drafts
            [] x = "too early"      -> \/ row[k].at + Window > clock
                                       \/ row[k].born + Window > clock
            [] x = "archived"       -> Person(k) \in setup.archived
            [] x = "do not contact" -> Person(k) \in setup.dnc
            [] x = "stopped"        -> Person(k) \in setup.stopped
            [] x = "switched off"   -> ~automation}]

RefusedInit == SendInit /\ standing = [w \in Workers |-> {}]

RefusedNext ==
    /\ SendNext
    /\ standing' = [w \in Workers |->
                      IF worker'[w].key = NoKey THEN {}
                      ELSE IF worker[w].key = NoKey THEN Refusals'[worker'[w].key]
                      ELSE standing[w] \cap Refusals'[worker'[w].key]]

RefusedSpec == RefusedInit /\ [][RefusedNext]_refusedVars

\* The fairness of FairSendSpec: the history takes no part in it.
FairRefusedSpec ==
    /\ RefusedSpec
    /\ WF_sendVars(Tick /\ UNCHANGED sendingVars)
    /\ \A w \in Workers : WF_sendVars(WorkerStep(w))

-----------------------------------------------------------------------------
\* Nothing is sent against a refusal that was there when the follow-up was claimed
\* and was never lifted: the owner finished or snoozed it, drafted their own words,
\* paused or archived the Mix, stopped it for the person, archived them, marked
\* Do not contact, or turned automatic sending off.
RefusalStopsSending ==
    [][\A w \in Workers :
          worker[w].pc = "ready" /\ sent' # sent /\ worker'[w].pc # "ready"
          => standing[w] = {}]_refusedVars

=============================================================================
