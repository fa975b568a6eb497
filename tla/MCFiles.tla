------------------------------ MODULE MCFiles ------------------------------
(***************************************************************************)
(* What the service keeps on disk, for TLC: the cost ledger, the search    *)
(* quota, the store's owner and its start, the import of an older          *)
(* version's files, and the credentials of a device.  The models share no  *)
(* state, and every property speaks of the variables of one of them: one   *)
(* run takes them one at a time, part names the one at work.               *)
(***************************************************************************)
EXTENDS CostLedger, SearchQuota, StoreStartup, LegacyImport, DeviceCredentials, TLC

CONSTANTS old, new, tool, here, there   \* processes and machines
CONSTANTS f1, f2, t1, t2, t3            \* files and topics

\* The service of two releases and a command of the newer one, on one machine
\* or on two that share the data directory.
OneHost == [p \in {old, new, tool} |-> here]
TwoHosts == [p \in {old, new, tool} |-> IF p = new THEN there ELSE here]
Releases == [p \in {old, new, tool} |-> IF p = old THEN 1 ELSE 2]

\* One file with every dialogue of up to two messages on two topics, those of
\* three that the user begins and one on three topics; a file without messages.
Wide == [k \in 1 .. 3 |-> [role |-> "user", topic |-> CASE k = 1 -> t1 [] k = 2 -> t2 [] k = 3 -> t3]]
Dialogues(n) == UNION {[1 .. k -> [role : Roles, topic : {t1, t2}]] : k \in 0 .. n}
Begun == {h \in [1 .. 3 -> [role : Roles, topic : {t1, t2}]] : h[1] = [role |-> "user", topic |-> t1]}
Both == [f \in {f1, f2} |-> IF f = f1 THEN Dialogues(2) \cup Begun \cup {Wide} ELSE Dialogues(0)]

VARIABLE part

diskVars == <<ledgerVars, quotaVars, startupVars, importVars, vars>>

FilesInit ==
  /\ part \in {"costs", "quota", "startup", "import", "device"}
  /\ LedgerInit /\ QuotaInit /\ StartupInit /\ ImportInit /\ Init
  /\ part # "import" => \A f \in Names : session[f] = Absent

FilesNext ==
  \/ part = "costs" /\ UNCHANGED <<part, quotaVars, startupVars, importVars, vars>> /\ LedgerNext
  \/ part = "quota" /\ UNCHANGED <<part, ledgerVars, startupVars, importVars, vars>> /\ QuotaNext
       /\ (currentSession' = 1 \/ day' = 1)   \* another session or another day
  \/ part = "startup" /\ UNCHANGED <<part, ledgerVars, quotaVars, importVars, vars>> /\ StartupNext
  \/ part = "import" /\ UNCHANGED <<part, ledgerVars, quotaVars, startupVars, vars>> /\ ImportNext
  \/ part = "device" /\ UNCHANGED <<part, ledgerVars, quotaVars, startupVars, importVars>> /\ Next

FilesSpec == FilesInit /\ [][FilesNext]_<<part, diskVars>>

\* Nothing tells two calls of a kind apart; the ids of searches serve for both.
Alike == Permutations(Replies)
=============================================================================
