------------------------ MODULE AccountSystemProofs ------------------------
(***************************************************************************)
(* Proofs about AccountSystem, for any requests and workers: a refresh      *)
(* token has one successor, a closed session is not renewed, an account     *)
(* that was stopped is opened by what is meant to open it only, and an      *)
(* erasure that was called back is not carried out.                         *)
(***************************************************************************)
EXTENDS AccountSystem, SequenceTheorems, TLAPS

UserRecords == [status : {"none", "active", "invited", "deletion_requested", "anonymized", "suspended",
                          "disabled"},
                active : BOOLEAN, password : BOOLEAN]
SessionRecords == [open : BOOLEAN, token : Nat]
TokenRecords == [sid : Nat, after : Nat]
WriteParts == {"profile", "user", "sessions", "invitations"}
SeenRecords == [doc : UserRecords, ref : Nat, todo : SUBSET WriteParts]
RequestSteps ==
  {"ready", "save", "issue", "revoke", "remove", "replayed", "owner", "swap", "done",
   "spend", "ask", "create", "cancel",
   "replace", "invite", "activate", "mark", "profile", "writes", "uninvite", "purge"}
DeletionRecords == [status : {"cooling_off", "erasing", "cancelled", "anonymized"},
                    paused : BOOLEAN, due : BOOLEAN, steps : 0..5]
WorkRecords == [at : {"idle", "check", "work", "record", "finish"}, d : Nat, n : 0..5]

AccountType == user \in UserRecords /\ code \in {"none", "open", "used"}
InvitationType == /\ inv \in Seq({"open", "accepted", "revoked"})
                  /\ profile \in {"none", "invited", "active", "suspended", "disabled"}

\* A request knows what it is about: a token, a record of a deletion or an invitation there is, and
\* what is to be written of the account.
RequestType == /\ does \in [Requests -> Operations]
               /\ pc \in [Requests -> RequestSteps]
               /\ seen \in [Requests -> SeenRecords]
RefInv == \A r \in Requests :
  /\ pc[r] \in {"replayed", "owner", "swap"} => seen[r].ref \in DOMAIN tokens
  /\ pc[r] = "cancel" => seen[r].ref \in DOMAIN del
  /\ pc[r] = "mark" => seen[r].ref \in DOMAIN inv
  /\ pc[r] = "activate" => seen[r].ref \in DOMAIN inv
WriteInv == \A r \in Requests :
  /\ pc[r] = "save" =>
       /\ does[r] \in {"social", "reset", "soft_delete", "restore", "toggle"}
       /\ does[r] = "soft_delete" => ~seen[r].doc.active
  /\ pc[r] = "writes" => does[r] \in {"suspend", "reactivate", "archive"}

\* A token belongs to a session, which knows the token in force; one that was followed by
\* another is not in force.
SessionInv ==
  /\ sess \in Seq(SessionRecords) /\ tokens \in Seq(TokenRecords)
  /\ \A t \in DOMAIN tokens : tokens[t].sid \in DOMAIN sess /\ tokens[t].after <= Len(tokens)
  /\ \A t, u \in DOMAIN tokens : tokens[u].after = t => sess[tokens[t].sid].token # t
  /\ OneSuccessor

\* A worker is at a step there is, of a request there is.
ErasureInv ==
  /\ del \in Seq(DeletionRecords) /\ work \in [Workers -> WorkRecords]
  /\ proof \in {"none", "open", "used"} /\ crashes \in Nat
  /\ order \in {"none", "unpaid", "paid", "finished", "cancelled"}
  /\ \A w \in Workers : /\ work[w].at = "idle" => work[w] = Idle
                        /\ work[w].at # "idle" => work[w].d \in DOMAIN del
                        /\ work[w].at \in {"check", "work", "record"} => work[w].n < 5

IInv == /\ AccountType /\ InvitationType /\ RequestType /\ RefInv /\ WriteInv
        /\ SessionInv /\ ErasureInv

-----------------------------------------------------------------------------
LEMMA InitIInv == Init => IInv
<1> SUFFICES ASSUME Init PROVE IInv
  OBVIOUS
<1>1. AccountType
  <2>1. /\ Customer(TRUE) \in UserRecords /\ Customer(FALSE) \in UserRecords
        /\ Invited \in UserRecords
    BY DEF UserRecords, Customer, Invited
  <2> QED BY <2>1 DEF Init, AccountType
<1>2. InvitationType
  <2>1. <<>> \in Seq({"open", "accepted", "revoked"}) BY EmptySeq
  <2>2. <<"open">> \in Seq({"open", "accepted", "revoked"}) OBVIOUS
  <2> QED BY <2>1, <2>2 DEF Init, InvitationType
<1>3. RequestType BY DEF Init, RequestType, RequestSteps, SeenRecords, Unseen, Gone, UserRecords
<1>4. RefInv /\ WriteInv BY DEF Init, RefInv, WriteInv
<1>5. SessionInv BY DEF Init, SessionInv, OneSuccessor
<1>6. ErasureInv BY DEF Init, ErasureInv, Idle, WorkRecords
<1> QED BY <1>1, <1>2, <1>3, <1>4, <1>5, <1>6 DEF IInv

-----------------------------------------------------------------------------
(* What a step of one request does to what is known of the requests. *)

LEMMA RequestSteps1 ==
  ASSUME IInv, UNCHANGED does, NEW r \in Requests, NEW to \in RequestSteps, NEW rec \in SeenRecords,
         pc' = [pc EXCEPT ![r] = to], seen' = [seen EXCEPT ![r] = rec],
         DOMAIN tokens \subseteq DOMAIN tokens', DOMAIN del \subseteq DOMAIN del',
         DOMAIN inv \subseteq DOMAIN inv',
         to \in {"replayed", "owner", "swap"} => rec.ref \in DOMAIN tokens,
         to = "cancel" => rec.ref \in DOMAIN del,
         to \in {"activate", "mark"} => rec.ref \in DOMAIN inv,
         to = "save" => /\ does[r] \in {"social", "reset", "soft_delete", "restore", "toggle"}
                        /\ does[r] = "soft_delete" => ~rec.doc.active,
         to = "writes" => does[r] \in {"suspend", "reactivate", "archive"}
  PROVE  RequestType' /\ RefInv' /\ WriteInv'
<1>1. RequestType' BY DEF IInv, RequestType
<1>2. /\ pc'[r] = to /\ seen'[r] = rec
      /\ \A s \in Requests \ {r} : pc'[s] = pc[s] /\ seen'[s] = seen[s]
  BY DEF IInv, RequestType
<1>3. RefInv' BY <1>2 DEF IInv, RefInv
<1>4. WriteInv' BY <1>2 DEF IInv, WriteInv
<1> QED BY <1>1, <1>3, <1>4

\* What a request has seen is of its type, and stays so when it is changed in part.
LEMMA SeenTyped ==
  ASSUME IInv, NEW r \in Requests
  PROVE  /\ seen[r] \in SeenRecords
         /\ seen' = seen => seen' = [seen EXCEPT ![r] = seen[r]]
         /\ Unseen \in SeenRecords
         /\ \A doc \in UserRecords :
              /\ [seen[r] EXCEPT !.doc = doc] \in SeenRecords
              /\ [seen[r] EXCEPT !.doc = doc].doc = doc
         /\ \A ref \in Nat :
              /\ [seen[r] EXCEPT !.ref = ref] \in SeenRecords
              /\ [seen[r] EXCEPT !.ref = ref].ref = ref
         /\ \A todo \in SUBSET WriteParts : [seen[r] EXCEPT !.todo = todo] \in SeenRecords
<1>1. seen \in [Requests -> SeenRecords] BY DEF IInv, RequestType
<1>2. seen[r] \in SeenRecords BY <1>1
<1>3. Unseen \in SeenRecords BY DEF Unseen, Gone, SeenRecords, UserRecords
<1> QED BY <1>1, <1>2, <1>3 DEF SeenRecords

\* Sessions that are closed are the same sessions.
LEMMA ClosedSessions ==
  ASSUME IInv
  PROVE  /\ Closed(sess) \in Seq(SessionRecords) /\ DOMAIN Closed(sess) = DOMAIN sess
         /\ \A s \in DOMAIN sess : Closed(sess)[s].token = sess[s].token
         /\ \A s \in DOMAIN sess : ~sess[s].open => Closed(sess)[s] = sess[s]
<1>1. sess \in Seq(SessionRecords) BY DEF IInv, SessionInv
<1>2. /\ DOMAIN sess = 1..Len(sess) /\ Len(sess) \in Nat
      /\ \A s \in DOMAIN sess : sess[s] \in SessionRecords
  BY <1>1
<1>3. \A s \in DOMAIN sess : Closed(sess)[s] = [sess[s] EXCEPT !.open = FALSE]
  BY DEF Closed
<1>4. \A s \in DOMAIN sess : /\ Closed(sess)[s] \in SessionRecords
                             /\ Closed(sess)[s].token = sess[s].token
                             /\ ~sess[s].open => Closed(sess)[s] = sess[s]
  BY <1>2, <1>3 DEF SessionRecords
<1>5. Closed(sess) = [s \in 1..Len(sess) |-> Closed(sess)[s]] BY <1>2 DEF Closed
<1>6. Closed(sess) \in [1..Len(sess) -> SessionRecords] BY <1>2, <1>4, <1>5
<1>7. Closed(sess) \in Seq(SessionRecords) BY <1>2, <1>6
<1>8. DOMAIN Closed(sess) = DOMAIN sess BY DEF Closed
<1> QED BY <1>4, <1>7, <1>8

\* So are those of which some lose their token or are closed.
LEMMA SameSessions ==
  ASSUME IInv, UNCHANGED tokens, sess' \in Seq(SessionRecords), DOMAIN sess' = DOMAIN sess,
         \A s \in DOMAIN sess : sess'[s].token = sess[s].token
  PROVE  SessionInv'
BY DEF IInv, SessionInv, OneSuccessor

LEMMA CloseOne ==
  ASSUME IInv, NEW s \in DOMAIN sess, sess' = [sess EXCEPT ![s].open = FALSE]
  PROVE  /\ sess' \in Seq(SessionRecords) /\ DOMAIN sess' = DOMAIN sess
         /\ \A d \in DOMAIN sess : sess'[d].token = sess[d].token
         /\ \A d \in DOMAIN sess : ~sess[d].open => sess'[d] = sess[d]
<1>1. sess \in Seq(SessionRecords) BY DEF IInv, SessionInv
<1>2. sess[s] \in SessionRecords BY <1>1
<1> DEFINE new == [sess[s] EXCEPT !.open = FALSE]
<1>3. /\ new \in SessionRecords /\ new.token = sess[s].token
      /\ ~sess[s].open => new = sess[s]
  BY <1>2 DEF SessionRecords
<1>4. sess' = [sess EXCEPT ![s] = new] OBVIOUS
<1> HIDE DEF new
<1>5. DOMAIN sess = 1..Len(sess) BY <1>1, LenProperties
<1>6. /\ sess' \in Seq(SessionRecords) /\ Len(sess') = Len(sess)
      /\ \A d \in 1..Len(sess) : sess'[d] = IF d = s THEN new ELSE sess[d]
  <2>1. s \in 1..Len(sess) BY <1>5
  <2>2. new \in SessionRecords BY <1>3
  <2> DEFINE next == [sess EXCEPT ![s] = new]
  <2>3. /\ next \in Seq(SessionRecords) /\ Len(next) = Len(sess)
        /\ \A d \in 1..Len(sess) : next[d] = IF d = s THEN new ELSE sess[d]
    BY <1>1, <2>1, <2>2, ExceptSeq
  <2> QED BY <1>4, <2>3
<1>7. DOMAIN sess' = DOMAIN sess BY <1>5, <1>6, LenProperties
<1> QED BY <1>3, <1>5, <1>6, <1>7

\* What a step leaves alone keeps what is known of it.
LEMMA Untouched ==
  ASSUME IInv
  PROVE  /\ UNCHANGED <<user, code>> => AccountType'
         /\ UNCHANGED <<inv, profile>> => InvitationType'
         /\ UNCHANGED <<sess, tokens>> => SessionInv'
         /\ UNCHANGED <<del, proof, order, work, crashes>> => ErasureInv'
         /\ UNCHANGED <<does, pc, seen>> /\ DOMAIN tokens \subseteq DOMAIN tokens'
              /\ DOMAIN del \subseteq DOMAIN del' /\ DOMAIN inv \subseteq DOMAIN inv'
              => RequestType' /\ RefInv' /\ WriteInv'
<1>1. UNCHANGED <<user, code>> => AccountType' BY DEF IInv, AccountType
<1>2. UNCHANGED <<inv, profile>> => InvitationType' BY DEF IInv, InvitationType
<1>3. UNCHANGED <<sess, tokens>> => SessionInv' BY DEF IInv, SessionInv, OneSuccessor
<1>4. UNCHANGED <<del, proof, order, work, crashes>> => ErasureInv' BY DEF IInv, ErasureInv
<1>5. UNCHANGED <<does, pc, seen>> /\ DOMAIN tokens \subseteq DOMAIN tokens'
        /\ DOMAIN del \subseteq DOMAIN del' /\ DOMAIN inv \subseteq DOMAIN inv'
        => RequestType' /\ RefInv' /\ WriteInv'
  BY DEF IInv, RequestType, RefInv, WriteInv
<1> QED BY <1>1, <1>2, <1>3, <1>4, <1>5

-----------------------------------------------------------------------------
(* Sign-in and the administration of accounts. *)

\* What a request saves is of the account, of what it was when it was read.
LEMMA SavesIInv ==
  ASSUME IInv, UNCHANGED <<does, deletionVars, invitationVars>>, NEW r \in Requests,
         \/ SocialLogin(r) \/ ResetPassword(r) \/ SoftDelete(r) \/ Restore(r) \/ Toggle(r)
  PROVE  IInv'
<1>1. user \in UserRecords BY DEF IInv, AccountType
<1>2. PICK doc \in UserRecords :
        /\ pc' = [pc EXCEPT ![r] = "save"] /\ seen' = [seen EXCEPT ![r].doc = doc]
        /\ does[r] \in {"social", "reset", "soft_delete", "restore", "toggle"}
        /\ does[r] = "soft_delete" => ~doc.active
  <2>1. CASE SocialLogin(r) BY <1>1, <2>1 DEF SocialLogin, Starts, Save, Goto
  <2>2. CASE ResetPassword(r)
    <3>1. [status |-> "active", active |-> TRUE, password |-> TRUE] \in UserRecords
      BY DEF UserRecords
    <3> QED BY <2>2, <3>1 DEF ResetPassword, Starts, Save, Goto
  <2>3. CASE SoftDelete(r)
    <3> DEFINE doc == [user EXCEPT !.active = FALSE, !.status = "deletion_requested"]
    <3>1. doc \in UserRecords /\ ~doc.active BY <1>1 DEF UserRecords
    <3> HIDE DEF doc
    <3>2. Starts(r, "soft_delete") /\ Save(r, doc) BY <2>3 DEF SoftDelete, doc
    <3> QED BY <3>1, <3>2 DEF Starts, Save, Goto
  <2>4. CASE Restore(r)
    <3> DEFINE doc == [user EXCEPT !.active = TRUE, !.status = "active"]
    <3>1. doc \in UserRecords BY <1>1 DEF UserRecords
    <3> HIDE DEF doc
    <3>2. Starts(r, "restore") /\ Save(r, doc) BY <2>4 DEF Restore, doc
    <3> QED BY <3>1, <3>2 DEF Starts, Save, Goto
  <2>5. CASE Toggle(r)
    <3> DEFINE doc == [user EXCEPT !.active = ~@]
    <3>1. doc \in UserRecords BY <1>1 DEF UserRecords
    <3> HIDE DEF doc
    <3>2. Starts(r, "toggle") /\ Save(r, doc) BY <2>5 DEF Toggle, doc
    <3> QED BY <3>1, <3>2 DEF Starts, Save, Goto
  <2> QED BY <2>1, <2>2, <2>3, <2>4, <2>5
<1> DEFINE rec == [seen[r] EXCEPT !.doc = doc]
<1>3. rec \in SeenRecords /\ rec.doc = doc BY SeenTyped
<1>4. seen' = [seen EXCEPT ![r] = rec] BY <1>2
<1> HIDE DEF rec
<1>5. UNCHANGED accountVars
  BY DEF SocialLogin, ResetPassword, SoftDelete, Restore, Toggle
<1>6. RequestType' /\ RefInv' /\ WriteInv'
  BY <1>2, <1>3, <1>4, <1>5, RequestSteps1 DEF RequestSteps, deletionVars, invitationVars, accountVars
<1> QED BY <1>5, <1>6, Untouched DEF IInv, accountVars, deletionVars, invitationVars

LEMMA SaveUserIInv ==
  ASSUME IInv, UNCHANGED <<does, deletionVars, invitationVars>>, NEW r \in Requests, SaveUser(r)
  PROVE  IInv'
<1>1. /\ does[r] \in {"social", "reset", "soft_delete", "restore", "toggle"}
  BY DEF SaveUser, IInv, WriteInv
<1>2. AfterSave[does[r]] \in {"issue", "revoke", "done"} BY <1>1 DEF AfterSave
<1>3. /\ user' = seen[r].doc /\ code' \in {"used", code} /\ UNCHANGED <<sess, tokens>>
      /\ pc' = [pc EXCEPT ![r] = AfterSave[does[r]]] /\ seen' = [seen EXCEPT ![r] = Unseen]
  BY DEF SaveUser, Goto
<1>4. AccountType' BY <1>3, SeenTyped DEF IInv, AccountType, SeenRecords
<1>5. RequestType' /\ RefInv' /\ WriteInv'
  BY <1>2, <1>3, SeenTyped, RequestSteps1 DEF RequestSteps, deletionVars, invitationVars
<1> QED BY <1>3, <1>4, <1>5, Untouched DEF IInv, deletionVars, invitationVars

\* A request that goes on and writes nothing of the account.
LEMMA LooksIInv ==
  ASSUME IInv, UNCHANGED <<does, deletionVars, invitationVars>>, NEW r \in Requests,
         \/ Login(r) \/ HardDelete(r) \/ CheckOwner(r) \/ \E t \in DOMAIN tokens : Refresh(r, t)
  PROVE  IInv'
<1>1. UNCHANGED accountVars BY DEF Login, HardDelete, CheckOwner, Refresh
<1>2. CASE Login(r) \/ HardDelete(r) \/ CheckOwner(r)
  <2>1. seen' = [seen EXCEPT ![r] = seen[r]] /\ seen[r] \in SeenRecords
    BY <1>2, SeenTyped DEF Login, HardDelete, CheckOwner
  <2>2. PICK to \in {"issue", "revoke", "swap"} :
          pc' = [pc EXCEPT ![r] = to] /\ (to = "swap" => pc[r] = "owner")
    BY <1>2 DEF Login, HardDelete, CheckOwner, Goto
  <2>3. to = "swap" => seen[r].ref \in DOMAIN tokens BY <2>2 DEF IInv, RefInv
  <2>4. RequestType' /\ RefInv' /\ WriteInv'
    BY <1>1, <2>1, <2>2, <2>3, RequestSteps1
    DEF RequestSteps, deletionVars, invitationVars, accountVars
  <2> QED BY <1>1, <2>4, Untouched DEF IInv, deletionVars, invitationVars, accountVars
<1>3. ASSUME NEW t \in DOMAIN tokens, Refresh(r, t) PROVE IInv'
  <2>1. t \in Nat
    <3>1. DOMAIN tokens = 1..Len(tokens) BY LenProperties DEF IInv, SessionInv
    <3> QED BY <3>1
  <2> DEFINE rec == [seen[r] EXCEPT !.ref = t]
  <2>2. rec \in SeenRecords /\ rec.ref = t BY <2>1, SeenTyped
  <2>3. seen' = [seen EXCEPT ![r] = rec] BY <1>3 DEF Refresh
  <2>4. PICK to \in {"replayed", "owner"} : pc' = [pc EXCEPT ![r] = to] BY <1>3 DEF Refresh, Goto
  <2> HIDE DEF rec
  <2>5. RequestType' /\ RefInv' /\ WriteInv'
    BY <1>1, <2>2, <2>3, <2>4, RequestSteps1
    DEF RequestSteps, deletionVars, invitationVars, accountVars
  <2> QED BY <1>1, <2>5, Untouched DEF IInv, deletionVars, invitationVars, accountVars
<1> QED BY <1>2, <1>3

\* A request that is done, or goes on to revoke, to issue or to remove, and leaves the account.
LEMMA EndsIInv ==
  ASSUME IInv, UNCHANGED <<does, deletionVars, invitationVars>>, NEW r \in Requests,
         NEW to \in {"done", "issue", "remove"}, pc' = [pc EXCEPT ![r] = to],
         seen' = [seen EXCEPT ![r] = Unseen],
         AccountType', SessionInv', DOMAIN tokens \subseteq DOMAIN tokens'
  PROVE  IInv'
<1>1. RequestType' /\ RefInv' /\ WriteInv'
  BY SeenTyped, RequestSteps1 DEF RequestSteps, deletionVars, invitationVars
<1> QED BY <1>1, Untouched DEF IInv, deletionVars, invitationVars

\* A sequence that an element is added to.
LEMMA Appended ==
  ASSUME NEW S, NEW q \in Seq(S), NEW e \in S
  PROVE  /\ Append(q, e) \in Seq(S) /\ Len(Append(q, e)) = Len(q) + 1 /\ Len(q) \in Nat
         /\ DOMAIN q = 1..Len(q) /\ DOMAIN Append(q, e) = 1..(Len(q) + 1)
         /\ \A i \in DOMAIN q : Append(q, e)[i] = q[i]
         /\ Append(q, e)[Len(q) + 1] = e
BY LenProperties, AppendProperties

LEMMA TokensTyped ==
  ASSUME IInv
  PROVE  \A t \in DOMAIN tokens : /\ tokens[t].sid \in DOMAIN sess /\ tokens[t].after <= Len(tokens)
                                  /\ tokens[t].after \in Nat
<1> TAKE t \in DOMAIN tokens
<1>1. tokens \in Seq(TokenRecords) BY DEF IInv, SessionInv
<1>2. tokens[t] \in TokenRecords BY <1>1, LenProperties
<1>3. tokens[t].after \in Nat BY <1>2 DEF TokenRecords
<1> QED BY <1>3 DEF IInv, SessionInv

\* A new session has the new token, which follows none.
LEMMA IssueIInv ==
  ASSUME IInv, UNCHANGED <<does, deletionVars, invitationVars>>, NEW r \in Requests, Issue(r)
  PROVE  IInv'
<1> DEFINE n == Len(sess) + 1
           m == Len(tokens) + 1
           ses == [open |-> TRUE, token |-> m]
           tok == [sid |-> n, after |-> 0]
<1>1. /\ tokens' = Append(tokens, tok) /\ sess' = Append(sess, ses)
      /\ pc' = [pc EXCEPT ![r] = "done"] /\ seen' = [seen EXCEPT ![r] = Unseen]
      /\ UNCHANGED <<user, code>>
  BY DEF Issue, Done, Goto
<1>2. sess \in Seq(SessionRecords) /\ tokens \in Seq(TokenRecords) BY DEF IInv, SessionInv
<1>3. Len(sess) \in Nat /\ Len(tokens) \in Nat BY <1>2, LenProperties
<1>4. ses \in SessionRecords /\ tok \in TokenRecords BY <1>3 DEF SessionRecords, TokenRecords
<1>5. ses.token = m /\ tok.sid = n /\ tok.after = 0 OBVIOUS
<1> HIDE DEF ses, tok
<1>6. /\ sess' \in Seq(SessionRecords) /\ Len(sess') = n
      /\ DOMAIN sess = 1..Len(sess) /\ DOMAIN sess' = 1..n
      /\ \A d \in DOMAIN sess : sess'[d] = sess[d]
      /\ sess'[n] = ses
  BY <1>1, <1>2, <1>4, Appended
<1>7. /\ tokens' \in Seq(TokenRecords) /\ Len(tokens') = m
      /\ DOMAIN tokens = 1..Len(tokens) /\ DOMAIN tokens' = 1..m
      /\ \A t \in DOMAIN tokens : tokens'[t] = tokens[t]
      /\ tokens'[m] = tok
  BY <1>1, <1>2, <1>4, Appended
<1>8. \A t \in DOMAIN tokens : /\ tokens[t].sid \in DOMAIN sess /\ tokens[t].after <= Len(tokens)
                               /\ tokens[t].after \in Nat
  BY TokensTyped
<1>9. \A t \in DOMAIN tokens' : t \in DOMAIN tokens \/ t = m BY <1>3, <1>7
<1>10. \A t \in DOMAIN tokens' : tokens'[t].sid \in DOMAIN sess' /\ tokens'[t].after <= Len(tokens')
  BY <1>3, <1>5, <1>6, <1>7, <1>8, <1>9
<1>11. ASSUME NEW t \in DOMAIN tokens', NEW u \in DOMAIN tokens', tokens'[u].after = t
       PROVE  sess'[tokens'[t].sid].token # t
  <2>1. u \in DOMAIN tokens /\ t \in DOMAIN tokens
    BY <1>3, <1>5, <1>7, <1>8, <1>9, <1>11
  <2>2. sess[tokens[t].sid].token # t BY <1>7, <1>11, <2>1 DEF IInv, SessionInv
  <2> QED BY <1>6, <1>7, <1>8, <2>1, <2>2
<1>12. OneSuccessor'
  <2> SUFFICES ASSUME NEW t \in DOMAIN tokens', NEW u \in DOMAIN tokens',
                      t # u, tokens'[t].after # 0
               PROVE  tokens'[t].after # tokens'[u].after
    BY DEF OneSuccessor
  <2>1. t \in DOMAIN tokens BY <1>5, <1>7, <1>9
  <2> QED BY <1>5, <1>7, <1>9, <2>1 DEF IInv, SessionInv, OneSuccessor
<1>13. SessionInv' BY <1>6, <1>7, <1>10, <1>11, <1>12 DEF SessionInv
<1>14. DOMAIN tokens \subseteq DOMAIN tokens' BY <1>3, <1>7
<1> QED BY <1>1, <1>13, <1>14, EndsIInv, Untouched

\* A token that is in force is followed by the one put in force for it.
LEMMA RotateIInv ==
  ASSUME IInv, UNCHANGED <<does, deletionVars, invitationVars>>, NEW r \in Requests, Rotate(r)
  PROVE  IInv'
<1> DEFINE t == seen[r].ref
           s == tokens[t].sid
           m == Len(tokens) + 1
           tok == [sid |-> s, after |-> t]
           ses == [sess[s] EXCEPT !.token = m]
<1>1. /\ pc' = [pc EXCEPT ![r] = "done"] /\ seen' = [seen EXCEPT ![r] = Unseen]
      /\ UNCHANGED <<user, code>>
      /\ \/ UNCHANGED <<sess, tokens>>
         \/ /\ sess[s].token = t
            /\ tokens' = Append(tokens, tok) /\ sess' = [sess EXCEPT ![s] = ses]
  BY DEF Rotate, MayRotate, Done, Goto
<1>2. CASE UNCHANGED <<sess, tokens>> BY <1>1, <1>2, EndsIInv, Untouched
<1>3. CASE ~UNCHANGED <<sess, tokens>>
  <2>1. t \in DOMAIN tokens BY DEF Rotate, IInv, RefInv
  <2>2. sess \in Seq(SessionRecords) /\ tokens \in Seq(TokenRecords) BY DEF IInv, SessionInv
  <2>3. /\ Len(sess) \in Nat /\ Len(tokens) \in Nat
        /\ DOMAIN sess = 1..Len(sess) /\ DOMAIN tokens = 1..Len(tokens)
    BY <2>2, LenProperties
  <2>4. s \in DOMAIN sess BY <2>1 DEF IInv, SessionInv
  <2>5. sess[s] \in SessionRecords BY <2>2, <2>3, <2>4, ElementOfSeq
  <2>6. ses \in SessionRecords /\ ses.token = m BY <2>3, <2>5 DEF SessionRecords
  <2>7. tok \in TokenRecords /\ tok.sid = s /\ tok.after = t BY <2>1, <2>3, <2>4 DEF TokenRecords
  <2>8. sess[s].token = t /\ tokens' = Append(tokens, tok) /\ sess' = [sess EXCEPT ![s] = ses]
    BY <1>1, <1>3
  <2> HIDE DEF t, s, tok, ses
  <2>9. /\ sess' \in Seq(SessionRecords) /\ Len(sess') = Len(sess) /\ DOMAIN sess' = DOMAIN sess
        /\ \A d \in DOMAIN sess : sess'[d] = IF d = s THEN ses ELSE sess[d]
    <3> DEFINE next == [sess EXCEPT ![s] = ses]
    <3>1. /\ next \in Seq(SessionRecords) /\ Len(next) = Len(sess)
          /\ \A d \in 1..Len(sess) : next[d] = IF d = s THEN ses ELSE sess[d]
      BY <2>2, <2>3, <2>4, <2>6, ExceptSeq
    <3>2. DOMAIN next = DOMAIN sess OBVIOUS
    <3> QED BY <2>3, <2>8, <3>1, <3>2
  <2>10. /\ tokens' \in Seq(TokenRecords) /\ Len(tokens') = m /\ DOMAIN tokens' = 1..m
         /\ \A d \in DOMAIN tokens : tokens'[d] = tokens[d]
         /\ tokens'[m] = tok
    BY <2>2, <2>7, <2>8, Appended
  <2>11. \A d \in DOMAIN tokens : /\ tokens[d].sid \in DOMAIN sess /\ tokens[d].after <= Len(tokens)
                                  /\ tokens[d].after \in Nat
    BY TokensTyped
  <2>12. \A d \in DOMAIN tokens' : d \in DOMAIN tokens \/ d = m BY <2>3, <2>10
  <2>13. \A d \in DOMAIN tokens' : tokens'[d].sid \in DOMAIN sess' /\ tokens'[d].after <= Len(tokens')
    BY <2>1, <2>3, <2>4, <2>7, <2>9, <2>10, <2>11, <2>12
  <2>14. \A d \in DOMAIN tokens : tokens[d].after # t
    BY <2>1, <2>8 DEF IInv, SessionInv, s
  <2>15. ASSUME NEW d \in DOMAIN tokens', NEW u \in DOMAIN tokens', tokens'[u].after = d
         PROVE  sess'[tokens'[d].sid].token # d
    <3>1. d \in DOMAIN tokens BY <2>1, <2>3, <2>7, <2>10, <2>11, <2>12, <2>15
    <3>2. sess'[tokens[d].sid].token = m \/ sess'[tokens[d].sid] = sess[tokens[d].sid]
      BY <2>6, <2>9, <2>11, <3>1
    <3>3. d # m BY <2>3, <3>1
    <3>4. CASE u = m
      <4>1. d = t BY <2>7, <2>10, <2>15, <3>4
      <4> QED BY <2>4, <2>6, <2>9, <2>10, <3>1, <3>3, <4>1 DEF s
    <3>5. CASE u # m
      <4>1. u \in DOMAIN tokens /\ tokens[u].after = d BY <2>10, <2>12, <2>15, <3>5
      <4>2. sess[tokens[d].sid].token # d BY <3>1, <4>1 DEF IInv, SessionInv
      <4> QED BY <2>10, <3>1, <3>2, <3>3, <4>2
    <3> QED BY <3>4, <3>5
  <2>16. OneSuccessor'
    <3> SUFFICES ASSUME NEW d \in DOMAIN tokens', NEW u \in DOMAIN tokens',
                        d # u, tokens'[d].after # 0
                 PROVE  tokens'[d].after # tokens'[u].after
      BY DEF OneSuccessor
    <3>1. CASE d = m /\ u \in DOMAIN tokens BY <2>7, <2>10, <2>14, <3>1
    <3>2. CASE u = m /\ d \in DOMAIN tokens BY <2>7, <2>10, <2>14, <3>2
    <3>3. CASE d \in DOMAIN tokens /\ u \in DOMAIN tokens
      BY <2>10, <3>3 DEF IInv, SessionInv, OneSuccessor
    <3> QED BY <2>12, <3>1, <3>2, <3>3
  <2>17. SessionInv' BY <2>9, <2>10, <2>13, <2>15, <2>16 DEF SessionInv
  <2>18. DOMAIN tokens \subseteq DOMAIN tokens' BY <2>3, <2>10
  <2> QED BY <1>1, <2>17, <2>18, EndsIInv, Untouched
<1> QED BY <1>2, <1>3

\* Sessions are closed, and keep their tokens.
LEMMA ClosesIInv ==
  ASSUME IInv, UNCHANGED <<does, deletionVars, invitationVars>>, NEW r \in Requests,
         RevokeAll(r) \/ RevokeFamily(r) \/ \E s \in DOMAIN sess : Logout(r, s)
  PROVE  IInv'
<1>1. PICK to \in {"done", "issue", "remove"} :
        pc' = [pc EXCEPT ![r] = to] /\ seen' = [seen EXCEPT ![r] = Unseen]
  BY DEF RevokeAll, RevokeFamily, Logout, Done, Goto, AfterRevoke
<1>2. UNCHANGED <<user, tokens, code>> BY DEF RevokeAll, RevokeFamily, Logout
<1>3. SessionInv'
  <2>1. CASE RevokeAll(r) BY <1>2, <2>1, ClosedSessions, SameSessions DEF RevokeAll
  <2>2. CASE RevokeFamily(r)
    <3> DEFINE s == tokens[seen[r].ref].sid
    <3>1. s \in DOMAIN sess /\ sess' = [sess EXCEPT ![s].open = FALSE]
      BY <2>2 DEF RevokeFamily, IInv, RefInv, SessionInv
    <3> HIDE DEF s
    <3> QED BY <1>2, <3>1, CloseOne, SameSessions
  <2>3. ASSUME NEW s \in DOMAIN sess, Logout(r, s) PROVE SessionInv'
    <3>1. sess' = [sess EXCEPT ![s].open = FALSE] BY <2>3 DEF Logout
    <3> QED BY <1>2, <3>1, CloseOne, SameSessions
  <2> QED BY <2>1, <2>2, <2>3
<1> QED BY <1>1, <1>2, <1>3, EndsIInv, Untouched

LEMMA AccountIInv ==
  ASSUME IInv, AccountNext, UNCHANGED <<does, deletionVars, invitationVars>>
  PROVE  IInv'
<1>1. CASE RequestPasswordReset
  <2>1. AccountType' BY <1>1 DEF RequestPasswordReset, IInv, AccountType
  <2> QED BY <1>1, <2>1, Untouched DEF RequestPasswordReset, IInv, deletionVars, invitationVars
<1>2. ASSUME NEW r \in Requests, RemoveUser(r) PROVE IInv'
  <2>1. AccountType' BY <1>2 DEF RemoveUser, IInv, AccountType, Gone, UserRecords
  <2> QED BY <1>2, <2>1, EndsIInv, Untouched DEF RemoveUser, Done, Goto
<1> QED BY <1>1, <1>2, SavesIInv, SaveUserIInv, LooksIInv, IssueIInv, RotateIInv, ClosesIInv
    DEF AccountNext, SignIn, Administer

-----------------------------------------------------------------------------
(* Deletion and erasure. *)

LEMMA DeletionsTyped ==
  ASSUME IInv
  PROVE  /\ del \in Seq(DeletionRecords) /\ DOMAIN del = 1..Len(del) /\ Len(del) \in Nat
         /\ \A d \in DOMAIN del : d \in Nat /\ del[d] \in DeletionRecords
<1>1. del \in Seq(DeletionRecords) BY DEF IInv, ErasureInv
<1>2. DOMAIN del = 1..Len(del) /\ Len(del) \in Nat BY <1>1, LenProperties
<1> QED BY <1>1, <1>2, ElementOfSeq

\* One request for a deletion is written.
LEMMA SetOne ==
  ASSUME IInv, NEW d \in DOMAIN del, NEW rec \in DeletionRecords, Set(d, rec)
  PROVE  /\ del' \in Seq(DeletionRecords) /\ DOMAIN del' = DOMAIN del
         /\ del'[d] = rec /\ \A e \in DOMAIN del \ {d} : del'[e] = del[e]
<1> DEFINE next == [del EXCEPT ![d] = rec]
<1>1. /\ del \in Seq(DeletionRecords) /\ DOMAIN del = 1..Len(del)
  BY DeletionsTyped
<1>2. /\ next \in Seq(DeletionRecords)
      /\ \A e \in 1..Len(del) : next[e] = IF e = d THEN rec ELSE del[e]
  BY <1>1, ExceptSeq
<1>3. DOMAIN next = DOMAIN del OBVIOUS
<1>4. del' = next BY DEF Set
<1> QED BY <1>1, <1>2, <1>3, <1>4

\* What may become of a request's fields.
LEMMA FieldsTyped ==
  ASSUME IInv, NEW d \in DOMAIN del
  PROVE  /\ [del[d] EXCEPT !.status = "cancelled"] \in DeletionRecords
         /\ [del[d] EXCEPT !.status = "erasing"] \in DeletionRecords
         /\ [del[d] EXCEPT !.status = "erasing", !.paused = FALSE] \in DeletionRecords
         /\ [del[d] EXCEPT !.status = "cooling_off", !.due = FALSE] \in DeletionRecords
         /\ [del[d] EXCEPT !.status = "anonymized", !.due = FALSE] \in DeletionRecords
         /\ [del[d] EXCEPT !.paused = ~@] \in DeletionRecords
         /\ [del[d] EXCEPT !.due = TRUE] \in DeletionRecords
         /\ \A n \in 0..5 : [del[d] EXCEPT !.steps = n] \in DeletionRecords
         /\ del[d].steps \in 0..5
<1>1. del[d] \in DeletionRecords BY DeletionsTyped
<1> QED BY <1>1 DEF DeletionRecords

\* The requests for deletion change, and the workers do not.
LEMMA DeletionsIInv ==
  ASSUME IInv, UNCHANGED <<work, crashes>>,
         del' \in Seq(DeletionRecords), DOMAIN del \subseteq DOMAIN del',
         proof' \in {"none", "open", "used"},
         order' \in {"none", "unpaid", "paid", "finished", "cancelled"}
  PROVE  ErasureInv'
BY DEF IInv, ErasureInv

\* One worker goes on.
LEMMA WorkerIInv ==
  ASSUME IInv, NEW w \in Workers, NEW rec \in WorkRecords, work' = [work EXCEPT ![w] = rec],
         rec = Idle \/ (rec.at # "idle" /\ rec.d \in DOMAIN del),
         rec.at \in {"check", "work", "record"} => rec.n < 5,
         del' \in Seq(DeletionRecords), DOMAIN del' = DOMAIN del,
         UNCHANGED proof, crashes' \in Nat,
         order' \in {"none", "unpaid", "paid", "finished", "cancelled"}
  PROVE  ErasureInv'
<1>1. work' \in [Workers -> WorkRecords] BY DEF IInv, ErasureInv
<1>2. work'[w] = rec /\ \A v \in Workers \ {w} : work'[v] = work[v] BY DEF IInv, ErasureInv
<1> QED BY <1>1, <1>2 DEF IInv, ErasureInv, Idle

\* A request's step, of what it is about in a deletion.
LEMMA AskIInv ==
  ASSUME IInv, UNCHANGED <<does, invitationVars, sess, tokens>>, NEW r \in Requests,
         NEW to \in {"spend", "ask", "create", "revoke", "done"},
         pc' = [pc EXCEPT ![r] = to],
         seen' = seen \/ seen' = [seen EXCEPT ![r] = Unseen],
         AccountType', ErasureInv', DOMAIN del \subseteq DOMAIN del'
  PROVE  IInv'
<1>1. \E rec \in SeenRecords : seen' = [seen EXCEPT ![r] = rec] BY SeenTyped
<1>2. RequestType' /\ RefInv' /\ WriteInv'
  BY <1>1, RequestSteps1 DEF RequestSteps, invitationVars
<1> QED BY <1>2, Untouched DEF IInv, invitationVars

LEMMA RequestsIInv ==
  ASSUME IInv, UNCHANGED <<does, invitationVars>>, NEW r \in Requests
  PROVE  /\ Prove(r) => IInv'
         /\ SpendCode(r) => IInv'
         /\ VerifyOwner(r) => IInv'
         /\ AskRead(r) => IInv'
         /\ CreateRequest(r) => IInv'
         /\ CancelRequest(r) => IInv'
         /\ \A d \in DOMAIN del : CancelRead(r, d) => IInv'
         /\ \A d \in DOMAIN del : Pause(r, d) => IInv'
<1>1. ASSUME Prove(r) \/ VerifyOwner(r) \/ AskRead(r) PROVE IInv'
  <2>1. /\ UNCHANGED <<accountVars, deletionVars>>
        /\ seen' = seen \/ seen' = [seen EXCEPT ![r] = Unseen]
    BY <1>1 DEF Prove, VerifyOwner, AskRead, Done
  <2>2. PICK to \in {"spend", "ask", "create", "done"} : pc' = [pc EXCEPT ![r] = to]
    BY <1>1 DEF Prove, VerifyOwner, AskRead, Done, Goto
  <2> QED BY <2>1, <2>2, AskIInv, Untouched DEF accountVars, deletionVars
<1>2. ASSUME SpendCode(r) PROVE IInv'
  <2>1. /\ UNCHANGED <<accountVars, del, order, work, crashes>>
        /\ seen' = seen \/ seen' = [seen EXCEPT ![r] = Unseen]
        /\ proof' \in {"used", proof}
    BY <1>2 DEF SpendCode, Done
  <2>2. PICK to \in {"ask", "done"} : pc' = [pc EXCEPT ![r] = to]
    BY <1>2 DEF SpendCode, Done, Goto
  <2>3. ErasureInv' BY <2>1 DEF IInv, ErasureInv
  <2> QED BY <2>1, <2>2, <2>3, AskIInv, Untouched DEF accountVars
<1>3. ASSUME CreateRequest(r) PROVE IInv'
  <2> DEFINE new == [status |-> "cooling_off", paused |-> FALSE, due |-> FALSE, steps |-> 0]
  <2>1. new \in DeletionRecords BY DEF DeletionRecords
  <2> HIDE DEF new
  <2>2. /\ UNCHANGED <<sess, tokens, code, proof, order, work, crashes, seen>>
        /\ del' = Append(del, new) \/ del' = del
        /\ user' \in {user, [user EXCEPT !.status = "deletion_requested"]}
    BY <1>3 DEF CreateRequest, new
  <2>3. PICK to \in {"revoke", "done"} : pc' = [pc EXCEPT ![r] = to]
    BY <1>3 DEF CreateRequest, Goto
  <2>4. AccountType'
    <3>1. [user EXCEPT !.status = "deletion_requested"] \in UserRecords
      BY DEF IInv, AccountType, UserRecords
    <3> QED BY <2>2, <3>1 DEF IInv, AccountType
  <2>5. del' \in Seq(DeletionRecords) /\ DOMAIN del \subseteq DOMAIN del'
    <3>1. CASE del' = del BY <3>1 DEF IInv, ErasureInv
    <3>2. CASE del' = Append(del, new)
      <4>1. del \in Seq(DeletionRecords) BY DeletionsTyped
      <4>2. /\ del' \in Seq(DeletionRecords) /\ Len(del) \in Nat
            /\ DOMAIN del = 1..Len(del) /\ DOMAIN del' = 1..(Len(del) + 1)
        BY <2>1, <3>2, <4>1, Appended
      <4> QED BY <4>2
    <3> QED BY <2>2, <3>1, <3>2
  <2>6. ErasureInv' BY <2>2, <2>5, DeletionsIInv DEF IInv, ErasureInv
  <2> QED BY <2>2, <2>3, <2>4, <2>5, <2>6, AskIInv
<1>4. ASSUME CancelRequest(r) PROVE IInv'
  <2> DEFINE d == seen[r].ref
             rec == [del[d] EXCEPT !.status = "cancelled"]
  <2>1. d \in DOMAIN del BY <1>4 DEF CancelRequest, IInv, RefInv
  <2>2. rec \in DeletionRecords BY <2>1, FieldsTyped
  <2>3. /\ UNCHANGED <<sess, tokens, code, proof, order, work, crashes>>
        /\ seen' = [seen EXCEPT ![r] = Unseen] /\ pc' = [pc EXCEPT ![r] = "done"]
        /\ Set(d, rec) \/ UNCHANGED del
        /\ user' \in {user, [user EXCEPT !.status = "active"]}
    BY <1>4 DEF CancelRequest, Done, Goto
  <2> HIDE DEF d, rec
  <2>4. del' \in Seq(DeletionRecords) /\ DOMAIN del' = DOMAIN del
    BY <2>1, <2>2, <2>3, SetOne, DeletionsTyped
  <2>5. AccountType'
    <3>1. [user EXCEPT !.status = "active"] \in UserRecords
      BY DEF IInv, AccountType, UserRecords
    <3> QED BY <2>3, <3>1 DEF IInv, AccountType
  <2>6. ErasureInv' BY <2>3, <2>4, DeletionsIInv DEF IInv, ErasureInv
  <2> QED BY <2>3, <2>4, <2>5, <2>6, AskIInv
<1>5. ASSUME NEW d \in DOMAIN del, CancelRead(r, d) PROVE IInv'
  <2> DEFINE rec == [seen[r] EXCEPT !.ref = d]
  <2>1. d \in Nat BY DeletionsTyped
  <2>2. rec \in SeenRecords /\ rec.ref = d BY <2>1, SeenTyped
  <2>3. /\ seen' = [seen EXCEPT ![r] = rec] /\ pc' = [pc EXCEPT ![r] = "cancel"]
        /\ UNCHANGED <<accountVars, deletionVars>>
    BY <1>5 DEF CancelRead, Goto
  <2> HIDE DEF rec
  <2>4. RequestType' /\ RefInv' /\ WriteInv'
    BY <2>2, <2>3, RequestSteps1 DEF RequestSteps, deletionVars, invitationVars, accountVars
  <2> QED BY <2>3, <2>4, Untouched DEF IInv, deletionVars, invitationVars, accountVars
<1>6. ASSUME NEW d \in DOMAIN del, Pause(r, d) PROVE IInv'
  <2> DEFINE rec == [del[d] EXCEPT !.paused = ~@]
  <2>1. rec \in DeletionRecords BY FieldsTyped
  <2>2. /\ Set(d, rec) /\ UNCHANGED <<accountVars, proof, order, work, crashes>>
        /\ seen' = [seen EXCEPT ![r] = Unseen] /\ pc' = [pc EXCEPT ![r] = "done"]
    BY <1>6 DEF Pause, Done, Goto
  <2> HIDE DEF rec
  <2>3. del' \in Seq(DeletionRecords) /\ DOMAIN del' = DOMAIN del BY <2>1, <2>2, SetOne
  <2>4. ErasureInv' BY <2>2, <2>3, DeletionsIInv DEF IInv, ErasureInv
  <2> QED BY <2>2, <2>3, <2>4, AskIInv, Untouched DEF accountVars
<1> QED BY <1>1, <1>2, <1>3, <1>4, <1>5, <1>6

\* A worker takes a request up at the step recorded.
LEMMA TakeTyped ==
  ASSUME IInv, NEW w \in Workers, NEW d \in DOMAIN del, Take(w, d)
  PROVE  \E rec \in WorkRecords :
           /\ work' = [work EXCEPT ![w] = rec] /\ rec.at # "idle" /\ rec.d = d
           /\ rec.at \in {"check", "work", "record"} => rec.n < 5
<1> DEFINE n == del[d].steps
           rec == [at |-> IF n < Notify THEN "check" ELSE After(n), d |-> d, n |-> n]
<1>1. d \in Nat /\ n \in 0..5 BY DeletionsTyped, FieldsTyped
<1>2. Len(Steps) = 5 BY DEF Steps
<1>3. After(n) \in {"finish", "work"} /\ (After(n) = "work" => n # 5) BY <1>2 DEF After
<1>4. rec \in WorkRecords BY <1>1, <1>3 DEF WorkRecords
<1>5. rec.at # "idle" /\ rec.d = d /\ (rec.at \in {"check", "work", "record"} => rec.n < 5)
  BY <1>1, <1>3 DEF Notify
<1>6. work' = [work EXCEPT ![w] = rec] BY DEF Take
<1> QED BY <1>4, <1>5, <1>6

LEMMA WorkersIInv ==
  ASSUME IInv, UNCHANGED <<does, invitationVars>>, NEW w \in Workers
  PROVE  /\ \A d \in DOMAIN del : Claim(w, d) => IInv'
         /\ \A d \in DOMAIN del : Resume(w, d) => IInv'
         /\ \A r \in Requests, d \in DOMAIN del : EraseNow(r, w, d) => IInv'
         /\ Check(w) => IInv'
         /\ Work(w) => IInv'
         /\ Record(w) => IInv'
         /\ Finish(w) => IInv'
         /\ Crash(w) => IInv'
<1> USE DEF accountVars
<1>1. ASSUME ErasureInv', DOMAIN del' = DOMAIN del, UNCHANGED <<accountVars, pc, seen>> PROVE IInv'
  BY <1>1, Untouched DEF IInv, invitationVars
<1>2. /\ del \in Seq(DeletionRecords) /\ crashes \in Nat
      /\ order \in {"none", "unpaid", "paid", "finished", "cancelled"}
      /\ work[w] \in WorkRecords /\ Idle \in WorkRecords
  BY DeletionsTyped DEF IInv, ErasureInv, Idle, WorkRecords
<1>3. work[w].at # "idle" => work[w].d \in DOMAIN del BY DEF IInv, ErasureInv
<1>4. ASSUME NEW d \in DOMAIN del, Claim(w, d) PROVE IInv'
  <2> DEFINE rec == [del[d] EXCEPT !.status = "erasing"]
  <2>1. rec \in DeletionRecords BY FieldsTyped
  <2>2. /\ Set(d, rec) /\ Take(w, d) /\ UNCHANGED <<accountVars, proof, order, crashes, pc, seen>>
    BY <1>4 DEF Claim
  <2> HIDE DEF rec
  <2>3. del' \in Seq(DeletionRecords) /\ DOMAIN del' = DOMAIN del BY <2>1, <2>2, SetOne
  <2>4. ErasureInv' BY <1>2, <2>2, <2>3, TakeTyped, WorkerIInv
  <2> QED BY <1>1, <2>2, <2>3, <2>4
<1>5. ASSUME NEW d \in DOMAIN del, Resume(w, d) PROVE IInv'
  <2>1. Take(w, d) /\ UNCHANGED <<accountVars, del, proof, order, crashes, pc, seen>>
    BY <1>5 DEF Resume
  <2>2. ErasureInv' BY <1>2, <2>1, TakeTyped, WorkerIInv
  <2> QED BY <1>1, <2>1, <2>2
<1>6. ASSUME NEW r \in Requests, NEW d \in DOMAIN del, EraseNow(r, w, d) PROVE IInv'
  <2> DEFINE rec == [del[d] EXCEPT !.status = "erasing", !.paused = FALSE]
  <2>1. rec \in DeletionRecords BY FieldsTyped
  <2>2. /\ Set(d, rec) /\ Take(w, d) /\ UNCHANGED <<accountVars, proof, order, crashes>>
        /\ seen' = [seen EXCEPT ![r] = Unseen] /\ pc' = [pc EXCEPT ![r] = "done"]
    BY <1>6 DEF EraseNow, Done, Goto
  <2> HIDE DEF rec
  <2>3. del' \in Seq(DeletionRecords) /\ DOMAIN del' = DOMAIN del BY <2>1, <2>2, SetOne
  <2>4. ErasureInv' BY <1>2, <2>2, <2>3, TakeTyped, WorkerIInv
  <2> QED BY <2>2, <2>3, <2>4, AskIInv, Untouched
<1>7. ASSUME Check(w) PROVE IInv'
  <2> DEFINE d == work[w].d
             put == [del[d] EXCEPT !.status = "cooling_off", !.due = FALSE]
             on == [work[w] EXCEPT !.at = "work"]
  <2>1. /\ work[w].at = "check" /\ UNCHANGED <<accountVars, proof, order, crashes, pc, seen>>
        /\ work' = [work EXCEPT ![w] = Idle] \/ work' = [work EXCEPT ![w] = on]
        /\ Set(d, put) \/ UNCHANGED del
    BY <1>7 DEF Check
  <2>2. d \in DOMAIN del BY <1>3, <2>1
  <2>3. put \in DeletionRecords BY <2>2, FieldsTyped
  <2>4. on \in WorkRecords /\ on.at # "idle" /\ on.d = d /\ on.n = work[w].n
    BY <1>2 DEF WorkRecords
  <2>5. on.n < 5 BY <2>1, <2>4 DEF IInv, ErasureInv
  <2> HIDE DEF d, put, on
  <2>6. del' \in Seq(DeletionRecords) /\ DOMAIN del' = DOMAIN del
    BY <1>2, <2>1, <2>2, <2>3, SetOne
  <2>7. ErasureInv'
    <3>1. CASE work' = [work EXCEPT ![w] = Idle] BY <1>2, <2>1, <2>6, <3>1, WorkerIInv DEF Idle
    <3>2. CASE work' = [work EXCEPT ![w] = on]
      BY <1>2, <2>1, <2>2, <2>4, <2>5, <2>6, <3>2, WorkerIInv
    <3> QED BY <2>1, <3>1, <3>2
  <2> QED BY <1>1, <2>1, <2>6, <2>7
<1>8. ASSUME Work(w) PROVE IInv'
  <2> DEFINE on == [work[w] EXCEPT !.at = "record"]
             gone == [status |-> "anonymized", active |-> FALSE, password |-> FALSE]
  <2>1. /\ work[w].at = "work" /\ UNCHANGED <<tokens, del, proof, crashes, pc, seen>>
        /\ work' = [work EXCEPT ![w] = on] /\ order' \in {"cancelled", order}
        /\ sess' \in {Closed(sess), sess} /\ code' \in {"used", code} /\ user' \in {gone, user}
    BY <1>8 DEF Work
  <2>2. gone \in UserRecords BY DEF UserRecords
  <2>3. AccountType' BY <2>1, <2>2 DEF IInv, AccountType
  <2>4. SessionInv'
    <3>1. CASE sess' = Closed(sess) BY <2>1, <3>1, ClosedSessions, SameSessions
    <3>2. CASE sess' = sess BY <2>1, <3>2, Untouched
    <3> QED BY <2>1, <3>1, <3>2
  <2>5. on \in WorkRecords /\ on.at # "idle" /\ on.d = work[w].d /\ on.n = work[w].n
    BY <1>2 DEF WorkRecords
  <2>6. on.n < 5 /\ on.d \in DOMAIN del BY <1>3, <2>1, <2>5 DEF IInv, ErasureInv
  <2> HIDE DEF on, gone
  <2>7. ErasureInv' BY <1>2, <2>1, <2>5, <2>6, WorkerIInv
  <2> QED BY <2>1, <2>3, <2>4, <2>7, Untouched DEF IInv, invitationVars
<1>9. ASSUME Record(w) PROVE IInv'
  <2> DEFINE d == work[w].d
             n == work[w].n + 1
             steps == Recorded(del[d].steps, n)
             rec == [del[d] EXCEPT !.steps = steps]
             on == [work[w] EXCEPT !.n = n, !.at = After(n)]
  <2>1. /\ work[w].at = "record" /\ UNCHANGED <<accountVars, proof, order, crashes, pc, seen>>
        /\ Set(d, rec) /\ work' = [work EXCEPT ![w] = on]
    BY <1>9 DEF Record
  <2>2. d \in DOMAIN del /\ n \in 0..5
    BY <1>2, <1>3, <2>1 DEF IInv, ErasureInv, WorkRecords
  <2>3. del[d].steps \in 0..5 BY <2>2, FieldsTyped
  <2>4. steps \in 0..5 BY <2>2, <2>3 DEF Recorded
  <2>5. rec \in DeletionRecords BY <2>2, <2>4, FieldsTyped
  <2>6. Len(Steps) = 5 BY DEF Steps
  <2>7. After(n) \in {"finish", "work"} /\ (After(n) = "work" => n # 5) BY <2>6 DEF After
  <2>8. on \in WorkRecords /\ on.at = After(n) /\ on.d = d /\ on.n = n
    BY <1>2, <2>2, <2>7 DEF WorkRecords
  <2>9. on.at # "idle" /\ (on.at \in {"check", "work", "record"} => on.n < 5)
    BY <2>2, <2>7, <2>8
  <2> HIDE DEF d, n, steps, rec, on
  <2>10. del' \in Seq(DeletionRecords) /\ DOMAIN del' = DOMAIN del BY <2>1, <2>2, <2>5, SetOne
  <2>11. ErasureInv' BY <1>2, <2>1, <2>2, <2>8, <2>9, <2>10, WorkerIInv
  <2> QED BY <1>1, <2>1, <2>10, <2>11
<1>10. ASSUME Finish(w) PROVE IInv'
  <2> DEFINE d == work[w].d
             rec == [del[d] EXCEPT !.status = "anonymized", !.due = FALSE]
  <2>1. /\ work[w].at = "finish" /\ UNCHANGED <<accountVars, proof, order, crashes, pc, seen>>
        /\ Set(d, rec) /\ work' = [work EXCEPT ![w] = Idle]
    BY <1>10 DEF Finish
  <2>2. d \in DOMAIN del BY <1>3, <2>1
  <2>3. rec \in DeletionRecords BY <2>2, FieldsTyped
  <2> HIDE DEF d, rec
  <2>4. del' \in Seq(DeletionRecords) /\ DOMAIN del' = DOMAIN del BY <2>1, <2>2, <2>3, SetOne
  <2>5. ErasureInv' BY <1>2, <2>1, <2>4, WorkerIInv DEF Idle
  <2> QED BY <1>1, <2>1, <2>4, <2>5
<1>11. ASSUME Crash(w) PROVE IInv'
  <2>1. /\ UNCHANGED <<accountVars, del, proof, order, pc, seen>>
        /\ crashes' = crashes + 1 /\ work' = [work EXCEPT ![w] = Idle]
    BY <1>11 DEF Crash
  <2>2. crashes' \in Nat BY <1>2, <2>1
  <2>3. ErasureInv' BY <1>2, <2>1, <2>2, WorkerIInv DEF Idle
  <2> QED BY <1>1, <2>1, <2>3
<1> QED BY <1>4, <1>5, <1>6, <1>7, <1>8, <1>9, <1>10, <1>11

LEMMA DeletionIInv ==
  ASSUME IInv, DeletionNext, UNCHANGED <<does, invitationVars>>
  PROVE  IInv'
<1> USE DEF accountVars
<1>1. CASE SendCode \/ OrderMoves
  <2>1. UNCHANGED <<accountVars, del, work, crashes, pc, seen>>
    BY <1>1 DEF SendCode, OrderMoves
  <2>2. /\ proof' \in {"none", "open", "used"}
        /\ order' \in {"none", "unpaid", "paid", "finished", "cancelled"}
    BY <1>1 DEF SendCode, OrderMoves, IInv, ErasureInv
  <2>3. ErasureInv' BY <2>1, <2>2 DEF IInv, ErasureInv
  <2> QED BY <2>1, <2>3, Untouched DEF IInv, invitationVars
<1>2. CASE CoolingOffEnds
  <2>1. PICK d \in DOMAIN del :
          /\ Set(d, [del[d] EXCEPT !.due = TRUE])
          /\ UNCHANGED <<accountVars, proof, order, work, crashes, pc, seen>>
    BY <1>2 DEF CoolingOffEnds
  <2>2. [del[d] EXCEPT !.due = TRUE] \in DeletionRecords BY FieldsTyped
  <2>3. del' \in Seq(DeletionRecords) /\ DOMAIN del' = DOMAIN del BY <2>1, <2>2, SetOne
  <2>4. ErasureInv' BY <2>1, <2>3, DeletionsIInv DEF IInv, ErasureInv
  <2> QED BY <2>1, <2>3, <2>4, Untouched DEF IInv, invitationVars
<1>3. CASE \E r \in Requests :
       \/ Prove(r) \/ SpendCode(r) \/ VerifyOwner(r) \/ AskRead(r) \/ CreateRequest(r) \/ CancelRequest(r)
       \/ \E d \in DOMAIN del : CancelRead(r, d) \/ Pause(r, d) \/ \E w \in Workers : EraseNow(r, w, d)
  BY <1>3, RequestsIInv, WorkersIInv
<1>4. CASE \E w \in Workers : Erase(w) \/ Crash(w) BY <1>4, WorkersIInv DEF Erase
<1> QED BY <1>1, <1>2, <1>3, <1>4 DEF DeletionNext

-----------------------------------------------------------------------------
(* Invitations and the pages of staff. *)

InvitationStates == {"open", "accepted", "revoked"}

LEMMA InvitationsTyped ==
  ASSUME IInv
  PROVE  /\ inv \in Seq(InvitationStates) /\ DOMAIN inv = 1..Len(inv) /\ Len(inv) \in Nat
         /\ \A i \in DOMAIN inv : i \in Nat /\ inv[i] \in InvitationStates
<1>1. inv \in Seq(InvitationStates) BY DEF IInv, InvitationType, InvitationStates
<1>2. DOMAIN inv = 1..Len(inv) /\ Len(inv) \in Nat BY <1>1, LenProperties
<1> QED BY <1>1, <1>2, ElementOfSeq

LEMMA RevokedTyped ==
  ASSUME IInv
  PROVE  Revoked(inv) \in Seq(InvitationStates) /\ DOMAIN Revoked(inv) = DOMAIN inv
<1>1. /\ DOMAIN inv = 1..Len(inv) /\ Len(inv) \in Nat
      /\ \A i \in DOMAIN inv : inv[i] \in InvitationStates
  BY InvitationsTyped
<1>2. \A i \in DOMAIN inv : Revoked(inv)[i] \in InvitationStates
  BY <1>1 DEF Revoked, InvitationStates
<1>3. Revoked(inv) = [i \in 1..Len(inv) |-> Revoked(inv)[i]] BY <1>1 DEF Revoked
<1>4. Revoked(inv) \in [1..Len(inv) -> InvitationStates] BY <1>1, <1>2, <1>3
<1>5. Revoked(inv) \in Seq(InvitationStates) BY <1>1, <1>4
<1>6. DOMAIN Revoked(inv) = DOMAIN inv BY DEF Revoked
<1> QED BY <1>5, <1>6

\* A step of a page, or of who accepts.
LEMMA PageIInv ==
  ASSUME IInv, UNCHANGED <<does, deletionVars>>, NEW r \in Requests, NEW to \in RequestSteps,
         NEW rec \in SeenRecords,
         pc' = [pc EXCEPT ![r] = to], seen' = [seen EXCEPT ![r] = rec],
         to \notin {"replayed", "owner", "swap", "cancel", "save"},
         to \in {"activate", "mark"} => rec.ref \in DOMAIN inv,
         to = "writes" => does[r] \in {"suspend", "reactivate", "archive"},
         user' \in UserRecords, UNCHANGED <<tokens, code>>, SessionInv',
         inv' \in Seq(InvitationStates), DOMAIN inv \subseteq DOMAIN inv',
         profile' \in {"none", "invited", "active", "suspended", "disabled"}
  PROVE  IInv'
<1>1. RequestType' /\ RefInv' /\ WriteInv' BY RequestSteps1 DEF deletionVars
<1>2. AccountType' /\ InvitationType'
  BY DEF IInv, AccountType, InvitationType, InvitationStates
<1> QED BY <1>1, <1>2, Untouched DEF IInv, deletionVars

LEMMA InvitationIInv ==
  ASSUME IInv, InvitationNext, UNCHANGED <<does, deletionVars>>
  PROVE  IInv'
<1> USE DEF accountVars, invitationVars, RequestSteps
<1>1. /\ user \in UserRecords /\ inv \in Seq(InvitationStates)
      /\ profile \in {"none", "invited", "active", "suspended", "disabled"}
  BY InvitationsTyped DEF IInv, AccountType, InvitationType
<1>2. UNCHANGED <<sess, tokens>> => SessionInv' BY Untouched
<1>3. ASSUME NEW r \in Requests,
             \/ Reinvite(r) \/ ReplaceInvitation(r) \/ CreateInvitation(r)
             \/ CancelInvitation(r) \/ RevokeInvitations(r) \/ ActivateProfile(r) \/ Purge(r)
      PROVE IInv'
  <2>1. seen' = [seen EXCEPT ![r] = seen[r]] /\ seen[r] \in SeenRecords
    BY <1>3, SeenTyped
    DEF Reinvite, ReplaceInvitation, CreateInvitation, CancelInvitation, RevokeInvitations,
        ActivateProfile, Purge
  <2>2. PICK to \in {"replace", "invite", "done", "uninvite", "purge"} :
          pc' = [pc EXCEPT ![r] = to]
    BY <1>3
    DEF Reinvite, ReplaceInvitation, CreateInvitation, CancelInvitation, RevokeInvitations,
        ActivateProfile, Purge, Goto
  <2>3. UNCHANGED <<sess, tokens, code>> /\ user' \in {Gone, user} /\ profile' \in {"none", "active", profile}
    BY <1>3
    DEF Reinvite, ReplaceInvitation, CreateInvitation, CancelInvitation, RevokeInvitations,
        ActivateProfile, Purge
  <2>4. inv' = inv \/ inv' = Revoked(inv) \/ inv' = Append(inv, "open")
    BY <1>3
    DEF Reinvite, ReplaceInvitation, CreateInvitation, CancelInvitation, RevokeInvitations,
        ActivateProfile, Purge
  <2>5. inv' \in Seq(InvitationStates) /\ DOMAIN inv \subseteq DOMAIN inv'
    <3>1. "open" \in InvitationStates BY DEF InvitationStates
    <3>2. CASE inv' = inv BY <1>1, <3>2
    <3>3. CASE inv' = Revoked(inv) BY <3>3, RevokedTyped
    <3>4. CASE inv' = Append(inv, "open")
      <4>1. /\ inv' \in Seq(InvitationStates) /\ Len(inv) \in Nat
            /\ DOMAIN inv = 1..Len(inv) /\ DOMAIN inv' = 1..(Len(inv) + 1)
        BY <1>1, <3>1, <3>4, Appended
      <4> QED BY <4>1
    <3> QED BY <2>4, <3>2, <3>3, <3>4
  <2>6. Gone \in UserRecords BY DEF Gone, UserRecords
  <2> QED BY <1>1, <1>2, <2>1, <2>2, <2>3, <2>5, <2>6, PageIInv
<1>4. ASSUME NEW r \in Requests, NEW i \in DOMAIN inv, Accept(r, i) PROVE IInv'
  <2> DEFINE rec == [seen[r] EXCEPT !.ref = i]
  <2>1. rec \in SeenRecords /\ rec.ref = i BY InvitationsTyped, SeenTyped
  <2>2. /\ seen' = [seen EXCEPT ![r] = rec] /\ pc' = [pc EXCEPT ![r] = "activate"]
        /\ UNCHANGED <<accountVars, invitationVars>>
    BY <1>4 DEF Accept, Goto
  <2> HIDE DEF rec
  <2> QED BY <1>1, <1>2, <2>1, <2>2, PageIInv
<1>5. ASSUME NEW r \in Requests, Activate(r) PROVE IInv'
  <2>1. Activated(user) \in UserRecords BY <1>1 DEF Activated, UserRecords
  <2>2. UNCHANGED <<sess, tokens, code, invitationVars>> /\ pc[r] = "activate"
    BY <1>5 DEF Activate
  <2>3. seen[r].ref \in DOMAIN inv BY <2>2 DEF IInv, RefInv
  <2>4. CASE Exists
    <3>1. user' = Activated(user) /\ pc' = [pc EXCEPT ![r] = "mark"] /\ UNCHANGED seen
      BY <1>5, <2>4 DEF Activate, Goto
    <3>2. seen' = [seen EXCEPT ![r] = seen[r]] /\ seen[r] \in SeenRecords BY <3>1, SeenTyped
    <3> QED BY <1>1, <1>2, <2>1, <2>2, <2>3, <3>1, <3>2, PageIInv
  <2>5. CASE ~Exists
    <3>1. UNCHANGED user /\ pc' = [pc EXCEPT ![r] = "done"] /\ seen' = [seen EXCEPT ![r] = Unseen]
      BY <1>5, <2>5 DEF Activate, Done, Goto
    <3> QED BY <1>1, <1>2, <2>2, <3>1, SeenTyped, PageIInv
  <2> QED BY <2>4, <2>5
<1>6. ASSUME NEW r \in Requests, MarkAccepted(r) PROVE IInv'
  <2> DEFINE i == seen[r].ref
             next == [inv EXCEPT ![i] = "accepted"]
  <2>1. /\ pc[r] = "mark" /\ inv' = next /\ pc' = [pc EXCEPT ![r] = "profile"]
        /\ seen' = [seen EXCEPT ![r] = Unseen] /\ UNCHANGED <<accountVars, profile>>
    BY <1>6 DEF MarkAccepted, Goto
  <2>2. i \in 1..Len(inv) BY <2>1, InvitationsTyped DEF IInv, RefInv
  <2>3. "accepted" \in InvitationStates BY DEF InvitationStates
  <2>4. next \in Seq(InvitationStates) BY <1>1, <2>2, <2>3, ExceptSeq
  <2>5. DOMAIN next = DOMAIN inv OBVIOUS
  <2> QED BY <1>1, <1>2, <2>1, <2>4, <2>5, SeenTyped, PageIInv
<1>7. ASSUME NEW r \in Requests, ChangeStaff(r) PROVE IInv'
  <2> DEFINE rec == [seen[r] EXCEPT !.todo = Writes[does[r]]]
  <2>1. /\ pc' = [pc EXCEPT ![r] = "writes"] /\ seen' = [seen EXCEPT ![r] = rec]
        /\ does[r] \in {"suspend", "reactivate", "archive"}
        /\ UNCHANGED <<accountVars, invitationVars>>
    BY <1>7 DEF ChangeStaff, Goto, Writes
  <2>2. Writes[does[r]] \in SUBSET WriteParts BY <2>1 DEF Writes, WriteParts
  <2>3. rec \in SeenRecords BY <2>2, SeenTyped
  <2> HIDE DEF rec
  <2> QED BY <1>1, <1>2, <2>1, <2>3, PageIInv
<1>8. ASSUME NEW r \in Requests, NEW part \in WriteParts, Write(r, part) PROVE IInv'
  <2> DEFINE left == seen[r].todo \ {part}
             rec == [seen[r] EXCEPT !.todo = left]
             status == Becomes[does[r]]
             changed == [user EXCEPT !.status = status, !.active = (status = "active")]
  <2>1. pc[r] = "writes" /\ does[r] \in {"suspend", "reactivate", "archive"}
    BY <1>8 DEF Write, IInv, WriteInv
  <2>2. status \in {"suspended", "active", "disabled"} BY <2>1 DEF Becomes
  <2>3. changed \in UserRecords BY <1>1, <2>2 DEF UserRecords
  <2>4. left \in SUBSET WriteParts
    <3>1. seen[r] \in SeenRecords BY SeenTyped
    <3> QED BY <3>1 DEF SeenRecords
  <2>5. rec \in SeenRecords BY <2>4, SeenTyped
  <2>6. /\ profile' \in {status, profile} /\ user' \in {changed, user}
        /\ sess' \in {Closed(sess), sess} /\ inv' \in {Revoked(inv), inv}
        /\ UNCHANGED <<tokens, code>> /\ seen' = [seen EXCEPT ![r] = rec]
    BY <1>8 DEF Write
  <2>7. PICK to \in {"done", "writes"} : pc' = [pc EXCEPT ![r] = to] BY <1>8 DEF Write, Goto
  <2> HIDE DEF left, rec, status, changed
  <2>8. SessionInv'
    <3>1. CASE sess' = Closed(sess) BY <2>6, <3>1, ClosedSessions, SameSessions
    <3>2. CASE sess' = sess BY <1>2, <2>6, <3>2
    <3> QED BY <2>6, <3>1, <3>2
  <2>9. inv' \in Seq(InvitationStates) /\ DOMAIN inv' = DOMAIN inv
    BY <1>1, <2>6, RevokedTyped
  <2> QED BY <1>1, <2>1, <2>2, <2>3, <2>5, <2>6, <2>7, <2>8, <2>9, PageIInv
<1> QED BY <1>3, <1>4, <1>5, <1>6, <1>7, <1>8 DEF InvitationNext, WriteParts

-----------------------------------------------------------------------------
LEMMA NextIInv == IInv /\ [Next]_vars => IInv'
<1> SUFFICES ASSUME IInv, [Next]_vars PROVE IInv'
  OBVIOUS
<1>1. CASE Next BY <1>1, AccountIInv, DeletionIInv, InvitationIInv DEF Next
<1>2. CASE UNCHANGED vars
  <2>1. UNCHANGED <<user, code, inv, profile, sess, tokens, del, proof, order, work, crashes, does, pc, seen>>
    BY <1>2 DEF vars, accountVars, deletionVars, invitationVars
  <2> QED BY <2>1, Untouched DEF IInv
<1> QED BY <1>1, <1>2

LEMMA AccountSystemInductive == Spec => []IInv
<1> QED BY InitIInv, NextIInv, PTL DEF Spec

-----------------------------------------------------------------------------
(* The theorems. *)

\* What the account, its invitation and the requests may be, they are, whatever meets.
THEOREM AccountSystemTypeCorrect == Spec => [](AccountType /\ InvitationType /\ RequestType)
<1>1. IInv => AccountType /\ InvitationType /\ RequestType BY DEF IInv
<1> QED BY <1>1, AccountSystemInductive, PTL

\* Who changes a session closes it or has found it open.
LEMMA ClosedStays ==
  ASSUME IInv, [Next]_vars, NEW s \in DOMAIN sess, ~sess[s].open
  PROVE  sess'[s] = sess[s]
<1>1. CASE sess' = sess BY <1>1
<1>2. CASE sess' = Closed(sess) BY <1>2, ClosedSessions
<1>3. ASSUME NEW d \in DOMAIN sess, sess' = [sess EXCEPT ![d].open = FALSE] PROVE sess'[s] = sess[s]
  BY <1>3, CloseOne
<1>4. ASSUME NEW r \in Requests, Issue(r) PROVE sess'[s] = sess[s]
  <2> DEFINE new == [open |-> TRUE, token |-> Len(tokens) + 1]
  <2>1. sess \in Seq(SessionRecords) /\ tokens \in Seq(TokenRecords) BY DEF IInv, SessionInv
  <2>2. Len(tokens) \in Nat BY <2>1, LenProperties
  <2>3. new \in SessionRecords BY <2>2 DEF SessionRecords
  <2>4. sess' = Append(sess, new) BY <1>4 DEF Issue
  <2> HIDE DEF new
  <2> QED BY <2>1, <2>3, <2>4, Appended
<1>5. ASSUME NEW r \in Requests, Rotate(r) PROVE sess'[s] = sess[s]
  <2> DEFINE d == tokens[seen[r].ref].sid
  <2>1. d \in DOMAIN sess BY <1>5 DEF Rotate, IInv, RefInv, SessionInv
  <2>2. sess' = sess \/ (sess[d].open /\ sess' = [sess EXCEPT ![d].token = Len(tokens) + 1])
    BY <1>5 DEF Rotate, MayRotate
  <2> HIDE DEF d
  <2>3. d # s => sess'[s] = sess[s] BY <2>1, <2>2
  <2> QED BY <2>2, <2>3
<1>6. CASE AccountNext
  <2>1. CASE RequestPasswordReset BY <1>1, <2>1 DEF RequestPasswordReset
  <2>2. ASSUME NEW r \in Requests, SignIn(r) PROVE sess'[s] = sess[s]
    <3>1. CASE Login(r) \/ SocialLogin(r) \/ ResetPassword(r) \/ SaveUser(r) \/ CheckOwner(r)
               \/ \E t \in DOMAIN tokens : Refresh(r, t)
      BY <1>1, <3>1 DEF Login, SocialLogin, ResetPassword, SaveUser, CheckOwner, Refresh, accountVars
    <3>2. CASE RevokeAll(r) BY <1>2, <3>2 DEF RevokeAll
    <3>3. CASE RevokeFamily(r)
      BY <1>3, <3>3 DEF RevokeFamily, IInv, RefInv, SessionInv
    <3>4. CASE \E d \in DOMAIN sess : Logout(r, d) BY <1>3, <3>4 DEF Logout
    <3> QED BY <1>4, <1>5, <2>2, <3>1, <3>2, <3>3, <3>4 DEF SignIn
  <2>3. ASSUME NEW r \in Requests, Administer(r) PROVE sess'[s] = sess[s]
    BY <1>1, <2>3 DEF Administer, SoftDelete, Restore, Toggle, HardDelete, RemoveUser, accountVars
  <2> QED BY <1>6, <2>1, <2>2, <2>3 DEF AccountNext
<1>7. CASE DeletionNext
  <2>1. sess' \in {sess, Closed(sess)}
    BY <1>7 DEF DeletionNext, SendCode, CoolingOffEnds, OrderMoves, Prove, SpendCode, VerifyOwner,
       AskRead, CreateRequest, CancelRequest, CancelRead, Pause, EraseNow, Erase, Claim, Resume,
       Check, Work, Record, Finish, Crash, accountVars
  <2> QED BY <1>1, <1>2, <2>1
<1>8. CASE InvitationNext
  <2>1. sess' \in {sess, Closed(sess)}
    BY <1>8 DEF InvitationNext, Reinvite, ReplaceInvitation, CreateInvitation, Accept, Activate,
       MarkAccepted, ActivateProfile, ChangeStaff, Write, CancelInvitation, RevokeInvitations,
       Purge, accountVars
  <2> QED BY <1>1, <1>2, <2>1
<1>9. CASE UNCHANGED vars BY <1>1, <1>9 DEF vars, accountVars
<1> QED BY <1>6, <1>7, <1>8, <1>9 DEF Next

\* A refresh token has one successor, however many tabs present it at once, and a session that was
\* closed is not renewed by a request that found it open (rotateAccountSession).
THEOREM RefreshedOnceWhileOpen == Spec => RenewedOnceWhileOpen
<1> DEFINE Keeps == \A s \in DOMAIN sess : ~sess[s].open => sess'[s] = sess[s]
<1>1. IInv /\ [Next]_vars => [Keeps]_sess BY ClosedStays
<1>2. IInv => OneSuccessor BY DEF IInv, SessionInv
<1>3. Spec => []OneSuccessor BY <1>2, AccountSystemInductive, PTL
<1>4. Spec => [][Keeps]_sess BY <1>1, AccountSystemInductive, PTL DEF Spec
<1> QED BY <1>3, <1>4 DEF RenewedOnceWhileOpen, ClosedNeverRenews

\* An account that was suspended, archived or closed is opened by a request that is meant to open
\* it: not by an invitation accepted meanwhile, nor by a deletion called back
\* (acceptAccountInvitation, AccountDeletionService.cancel).
THEOREM StoppedIsKeptOut == Spec => AcceptKeepsOut
<1> DEFINE Reopens == \E r \in Requests :
             Moves(r) /\ does[r] \in {"reactivate", "restore", "toggle", "reset", "social"}
           KeepsOut == ~user.active /\ user'.active => Reopens
<1>1. ASSUME IInv, [Next]_vars, ~user.active, user'.active PROVE Reopens
  <2>1. user \in UserRecords BY <1>1 DEF IInv, AccountType
  <2>2. user' # user BY <1>1
  <2>3. ASSUME user'.active = user.active PROVE FALSE BY <1>1, <2>3
  <2>4. CASE AccountNext
    <3>1. PICK r \in Requests : SaveUser(r) \/ RemoveUser(r)
      BY <2>2, <2>4 DEF AccountNext, RequestPasswordReset, SignIn, Administer, Login, SocialLogin,
         ResetPassword, Issue, RevokeAll, Refresh, RevokeFamily, CheckOwner, Rotate, Logout,
         SoftDelete, Restore, Toggle, HardDelete, accountVars
    <3>2. SaveUser(r) BY <1>1, <3>1 DEF RemoveUser, Gone
    <3>3. does[r] \in {"social", "reset", "restore", "toggle"}
      BY <1>1, <3>2 DEF SaveUser, IInv, WriteInv
    <3>4. pc[r] = "save" /\ pc'[r] \in {"issue", "revoke", "done"}
      BY <1>1, <3>2, <3>3 DEF SaveUser, AfterSave, Goto, IInv, RequestType
    <3> QED BY <3>3, <3>4 DEF Moves
  <2>5. CASE DeletionNext
    <3>1. user' \in {user, [user EXCEPT !.status = "deletion_requested"],
                     [user EXCEPT !.status = "active"],
                     [status |-> "anonymized", active |-> FALSE, password |-> FALSE]}
      BY <2>5 DEF DeletionNext, SendCode, CoolingOffEnds, OrderMoves, Prove, SpendCode, VerifyOwner,
         AskRead, CreateRequest, CancelRequest, CancelRead, Pause, EraseNow, Erase, Claim, Resume,
         Check, Work, Record, Finish, Crash, accountVars
    <3> QED BY <1>1, <2>1, <3>1 DEF UserRecords
  <2>6. CASE InvitationNext
    <3>1. ASSUME NEW r \in Requests, NEW part \in WriteParts, Write(r, part) PROVE Reopens
      <4>1. /\ does[r] \in {"suspend", "reactivate", "archive"} /\ part \in seen[r].todo
            /\ seen' = [seen EXCEPT ![r].todo = seen[r].todo \ {part}]
            /\ part = "user" => user'.active = (Becomes[does[r]] = "active") \/ user' = user
            /\ part # "user" => user' = user
        BY <1>1, <2>1, <3>1 DEF Write, IInv, WriteInv, UserRecords
      <4>2. Becomes[does[r]] = "active" BY <1>1, <2>2, <4>1
      <4>3. does[r] = "reactivate" BY <4>1, <4>2 DEF Becomes
      <4>4. seen'[r] # seen[r]
        <5>1. seen \in [Requests -> SeenRecords] BY <1>1 DEF IInv, RequestType
        <5>2. seen[r] \in SeenRecords BY <5>1
        <5>3. seen'[r].todo = seen[r].todo \ {part} BY <4>1, <5>1, <5>2 DEF SeenRecords
        <5> QED BY <4>1, <5>3
      <4> QED BY <4>3, <4>4 DEF Moves
    <3>2. ASSUME NEW r \in Requests, Activate(r) PROVE FALSE
      <4>1. user' \in {user, [user EXCEPT !.status = "active", !.password = TRUE]}
        BY <3>2 DEF Activate, Activated
      <4> QED BY <1>1, <2>1, <4>1 DEF UserRecords
    <3>3. ASSUME NEW r \in Requests, Purge(r) PROVE FALSE BY <1>1, <3>3 DEF Purge, Gone
    <3> QED
      BY <2>2, <2>6, <3>1, <3>2, <3>3 DEF InvitationNext, Reinvite, ReplaceInvitation,
         CreateInvitation, Accept, MarkAccepted, ActivateProfile, ChangeStaff, CancelInvitation,
         RevokeInvitations, accountVars, WriteParts
  <2>7. CASE UNCHANGED vars BY <2>2, <2>7 DEF vars, accountVars
  <2> QED BY <1>1, <2>4, <2>5, <2>6, <2>7 DEF Next
<1>2. IInv /\ [Next]_vars => [KeepsOut]_<<user, pc, seen>> BY <1>1
<1> QED BY <1>2, AccountSystemInductive, PTL DEF Spec, AcceptKeepsOut

-----------------------------------------------------------------------------
(* An erasure that is called back. *)

\* A worker at work is the only one of its request, which is being erased.
OneEraser == \A w \in Workers : work[w].at # "idle" =>
  /\ del[work[w].d].status = "erasing"
  /\ \A v \in Workers \ {w} : work[v].at # "idle" => work[v].d # work[w].d

\* No worker begins or goes on, and what is being erased stays so.
LEMMA EraserKept ==
  ASSUME IInv, OneEraser, UNCHANGED work,
         \A d \in DOMAIN del : del[d].status = "erasing" => del'[d].status = "erasing"
  PROVE  OneEraser'
BY DEF IInv, ErasureInv, OneEraser

\* A worker that lets go may change its own request only.
LEMMA EraserLeaves ==
  ASSUME IInv, OneEraser, NEW w \in Workers, work' = [work EXCEPT ![w] = Idle],
         \A d \in DOMAIN del \ {work[w].d} : del'[d] = del[d]
  PROVE  OneEraser'
<1>1. work'[w] = Idle /\ \A v \in Workers \ {w} : work'[v] = work[v] BY DEF IInv, ErasureInv
<1>2. CASE work[w].at # "idle" BY <1>1, <1>2 DEF IInv, ErasureInv, OneEraser, Idle
<1>3. CASE work[w].at = "idle"
  <2>1. \A v \in Workers : work'[v] = work[v] BY <1>1, <1>3 DEF IInv, ErasureInv
  <2>2. work[w].d = 0 BY <1>3 DEF IInv, ErasureInv, Idle
  <2>3. \A d \in DOMAIN del : del'[d] = del[d] BY <2>2, DeletionsTyped
  <2> QED BY <2>1, <2>3 DEF IInv, ErasureInv, OneEraser
<1> QED BY <1>2, <1>3

\* A worker that takes a request up finds none at it.
LEMMA EraserTakes ==
  ASSUME IInv, OneEraser, NEW w \in Workers, NEW d \in DOMAIN del, Take(w, d),
         \A v \in Workers \ {w} : work[v].at # "idle" => work[v].d # d,
         del'[d].status = "erasing", \A e \in DOMAIN del \ {d} : del'[e] = del[e]
  PROVE  OneEraser'
<1>1. PICK rec \in WorkRecords : work' = [work EXCEPT ![w] = rec] /\ rec.d = d
  BY TakeTyped
<1>2. work'[w] = rec /\ \A v \in Workers \ {w} : work'[v] = work[v]
  BY <1>1 DEF IInv, ErasureInv
<1> QED BY <1>1, <1>2 DEF IInv, ErasureInv, OneEraser

\* A worker that goes on stays at its request.
LEMMA EraserGoesOn ==
  ASSUME IInv, OneEraser, NEW w \in Workers, NEW rec \in WorkRecords, work[w].at # "idle",
         work' = [work EXCEPT ![w] = rec], rec.d = work[w].d,
         \A d \in DOMAIN del : del'[d].status = del[d].status
  PROVE  OneEraser'
<1>1. work'[w] = rec /\ \A v \in Workers \ {w} : work'[v] = work[v]
  BY DEF IInv, ErasureInv
<1> QED BY <1>1 DEF IInv, ErasureInv, OneEraser

LEMMA EraserNext == ~MaySlow /\ IInv /\ OneEraser /\ [Next]_vars => OneEraser'
<1> SUFFICES ASSUME ~MaySlow, IInv, OneEraser, [Next]_vars PROVE OneEraser'
  OBVIOUS
<1>1. ASSUME UNCHANGED <<work, del>> PROVE OneEraser' BY <1>1 DEF OneEraser
<1>2. CASE \/ (AccountNext \/ InvitationNext) /\ UNCHANGED deletionVars
           \/ UNCHANGED vars
  BY <1>1, <1>2 DEF vars, deletionVars
<1>3. ASSUME NEW d \in DOMAIN del, NEW rec \in DeletionRecords, Set(d, rec), UNCHANGED work,
             del[d].status # "erasing"
      PROVE OneEraser'
  <2>1. \A e \in DOMAIN del \ {d} : del'[e] = del[e] BY <1>3, SetOne
  <2> QED BY <1>3, <2>1, EraserKept
<1>4. CASE SendCode \/ OrderMoves BY <1>1, <1>4 DEF SendCode, OrderMoves
<1>5. CASE CoolingOffEnds
  <2>1. PICK d \in DOMAIN del :
          /\ del[d].status = "cooling_off" /\ UNCHANGED work
          /\ Set(d, [del[d] EXCEPT !.due = TRUE])
    BY <1>5 DEF CoolingOffEnds
  <2> QED BY <1>3, <2>1, FieldsTyped
<1>6. ASSUME NEW r \in Requests,
             Prove(r) \/ SpendCode(r) \/ VerifyOwner(r) \/ AskRead(r)
               \/ \E d \in DOMAIN del : CancelRead(r, d)
      PROVE OneEraser'
  BY <1>1, <1>6 DEF Prove, SpendCode, VerifyOwner, AskRead, CancelRead, deletionVars
<1>7. ASSUME NEW r \in Requests, CreateRequest(r) PROVE OneEraser'
  <2> DEFINE new == [status |-> "cooling_off", paused |-> FALSE, due |-> FALSE, steps |-> 0]
  <2>1. new \in DeletionRecords BY DEF DeletionRecords
  <2> HIDE DEF new
  <2>2. UNCHANGED work /\ (del' = Append(del, new) \/ del' = del)
    BY <1>7 DEF CreateRequest, new
  <2>3. del \in Seq(DeletionRecords) BY DeletionsTyped
  <2>4. \A d \in DOMAIN del : del'[d] = del[d] BY <2>1, <2>2, <2>3, Appended
  <2> QED BY <2>2, <2>4, EraserKept
<1>8. ASSUME NEW r \in Requests, CancelRequest(r) PROVE OneEraser'
  <2> DEFINE d == seen[r].ref
             rec == [del[d] EXCEPT !.status = "cancelled"]
  <2>1. d \in DOMAIN del BY <1>8 DEF CancelRequest, IInv, RefInv
  <2>2. rec \in DeletionRecords BY <2>1, FieldsTyped
  <2>3. /\ UNCHANGED work
        /\ (Set(d, rec) /\ del[d].status = "cooling_off") \/ UNCHANGED del
    BY <1>8 DEF CancelRequest, MayCancel
  <2> HIDE DEF d, rec
  <2> QED BY <1>1, <1>3, <2>1, <2>2, <2>3
<1>9. ASSUME NEW r \in Requests, NEW d \in DOMAIN del, Pause(r, d) PROVE OneEraser'
  <2>1. /\ Set(d, [del[d] EXCEPT !.paused = ~@]) /\ UNCHANGED work
        /\ del[d].status = "cooling_off"
    BY <1>9 DEF Pause
  <2> QED BY <1>3, <2>1, FieldsTyped
<1>10. ASSUME NEW w \in Workers, NEW d \in DOMAIN del, NEW rec \in DeletionRecords,
              del[d].status = "cooling_off", Take(w, d), Set(d, rec), rec.status = "erasing"
       PROVE OneEraser'
  <2>1. \A v \in Workers \ {w} : work[v].at # "idle" => work[v].d # d
    BY <1>10 DEF OneEraser
  <2>2. del'[d] = rec /\ \A e \in DOMAIN del \ {d} : del'[e] = del[e] BY <1>10, SetOne
  <2> QED BY <1>10, <2>1, <2>2, EraserTakes
<1>11. ASSUME NEW w \in Workers, NEW d \in DOMAIN del,
              Claim(w, d) \/ \E r \in Requests : EraseNow(r, w, d)
       PROVE OneEraser'
  <2> DEFINE rec1 == [del[d] EXCEPT !.status = "erasing"]
             rec2 == [del[d] EXCEPT !.status = "erasing", !.paused = FALSE]
  <2>1. del[d] \in DeletionRecords BY DeletionsTyped
  <2>2. /\ rec1 \in DeletionRecords /\ rec1.status = "erasing"
        /\ rec2 \in DeletionRecords /\ rec2.status = "erasing"
    BY <2>1 DEF DeletionRecords
  <2>3. del[d].status = "cooling_off" /\ Take(w, d) /\ (Set(d, rec1) \/ Set(d, rec2))
    BY <1>11 DEF Claim, EraseNow
  <2> HIDE DEF rec1, rec2
  <2> QED BY <1>10, <2>2, <2>3
<1>12. ASSUME NEW w \in Workers, NEW d \in DOMAIN del, Resume(w, d) PROVE OneEraser'
  <2>1. /\ Take(w, d) /\ UNCHANGED del /\ del[d].status = "erasing"
        /\ \A v \in Workers : work[v].d # d
    BY <1>12 DEF Resume, MayResume
  <2> QED BY <2>1, EraserTakes
<1>13. ASSUME NEW w \in Workers, Check(w) PROVE OneEraser'
  <2> DEFINE d == work[w].d
             put == [del[d] EXCEPT !.status = "cooling_off", !.due = FALSE]
             on == [work[w] EXCEPT !.at = "work"]
  <2>1. work[w].at = "check" /\ d \in DOMAIN del /\ work[w] \in WorkRecords
    BY <1>13 DEF Check, IInv, ErasureInv
  <2>2. put \in DeletionRecords BY <2>1, FieldsTyped
  <2>3. on \in WorkRecords /\ on.d = d BY <2>1 DEF WorkRecords
  <2>4. \/ work' = [work EXCEPT ![w] = Idle] /\ (Set(d, put) \/ UNCHANGED del)
        \/ work' = [work EXCEPT ![w] = on] /\ UNCHANGED del
    BY <1>13 DEF Check
  <2> HIDE DEF put, on
  <2>5. CASE work' = [work EXCEPT ![w] = on] /\ UNCHANGED del
    BY <2>1, <2>3, <2>5, EraserGoesOn
  <2>6. CASE work' = [work EXCEPT ![w] = Idle] /\ (Set(d, put) \/ UNCHANGED del)
    <3>1. \A e \in DOMAIN del \ {d} : del'[e] = del[e] BY <2>1, <2>2, <2>6, SetOne
    <3> QED BY <2>6, <3>1, EraserLeaves
  <2> QED BY <2>4, <2>5, <2>6
<1>14. ASSUME NEW w \in Workers, Work(w) PROVE OneEraser'
  <2> DEFINE on == [work[w] EXCEPT !.at = "record"]
  <2>1. /\ work[w].at = "work" /\ UNCHANGED del /\ work' = [work EXCEPT ![w] = on]
        /\ work[w] \in WorkRecords
    BY <1>14 DEF Work, IInv, ErasureInv
  <2>2. on \in WorkRecords /\ on.d = work[w].d BY <2>1 DEF WorkRecords
  <2> HIDE DEF on
  <2> QED BY <2>1, <2>2, EraserGoesOn
<1>15. ASSUME NEW w \in Workers, Record(w) PROVE OneEraser'
  <2> DEFINE d == work[w].d
             n == work[w].n + 1
             rec == [del[d] EXCEPT !.steps = Recorded(@, n)]
             on == [work[w] EXCEPT !.n = n, !.at = After(n)]
  <2>1. /\ work[w].at = "record" /\ work[w] \in WorkRecords /\ d \in DOMAIN del /\ n \in 0..5
    BY <1>15 DEF Record, IInv, ErasureInv, WorkRecords
  <2>2. Set(d, rec) /\ work' = [work EXCEPT ![w] = on] BY <1>15 DEF Record
  <2>3. del[d] \in DeletionRecords BY <2>1, DeletionsTyped
  <2>4. Recorded(del[d].steps, n) \in 0..5 BY <2>1, <2>3 DEF Recorded, DeletionRecords
  <2>5. rec \in DeletionRecords /\ rec.status = del[d].status BY <2>3, <2>4 DEF DeletionRecords
  <2>6. After(n) \in {"finish", "work"} BY DEF After
  <2>7. on \in WorkRecords /\ on.d = d BY <2>1, <2>6 DEF WorkRecords
  <2> HIDE DEF rec, on, n
  <2>8. \A e \in DOMAIN del : del'[e].status = del[e].status BY <2>1, <2>2, <2>5, SetOne
  <2> QED BY <2>1, <2>2, <2>7, <2>8, EraserGoesOn
<1>16. ASSUME NEW w \in Workers, Finish(w) PROVE OneEraser'
  <2> DEFINE d == work[w].d
             rec == [del[d] EXCEPT !.status = "anonymized", !.due = FALSE]
  <2>1. d \in DOMAIN del BY <1>16 DEF Finish, IInv, ErasureInv
  <2>2. rec \in DeletionRecords BY <2>1, FieldsTyped
  <2>3. Set(d, rec) /\ work' = [work EXCEPT ![w] = Idle] BY <1>16 DEF Finish
  <2> HIDE DEF rec
  <2>4. \A e \in DOMAIN del \ {d} : del'[e] = del[e] BY <2>1, <2>2, <2>3, SetOne
  <2> QED BY <2>3, <2>4, EraserLeaves
<1>17. ASSUME NEW w \in Workers, Crash(w) PROVE OneEraser'
  BY <1>17, EraserLeaves DEF Crash
<1>18. CASE DeletionNext
  BY <1>4, <1>5, <1>6, <1>7, <1>8, <1>9, <1>11, <1>12, <1>13, <1>14, <1>15, <1>16, <1>17, <1>18
  DEF DeletionNext, Erase
<1> QED BY <1>2, <1>18 DEF Next

\* When a customer has been told that the account is restored, no worker erases anything of it,
\* unless an erasure outlasts the time after which another worker takes it up
\* (AccountDeletionService.cancel, AccountErasureService.runDue).
THEOREM CalledBackIsKept ==
  ASSUME ~MaySlow
  PROVE  Spec => []CancelledIsKept
<1>1. Init => OneEraser BY DEF Init, OneEraser, Idle
<1>2. IInv /\ OneEraser /\ [Next]_vars => OneEraser' BY EraserNext
<1>3. OneEraser => CancelledIsKept BY DEF OneEraser, CancelledIsKept
<1> QED BY <1>1, <1>2, <1>3, AccountSystemInductive, PTL DEF Spec

=============================================================================
