-------------------------- MODULE AuthTokensProofs ---------------------------
(***************************************************************************)
(* The denylist for any number of workers and tokens and all lifetimes     *)
(* that satisfy AuthAssumption.                                            *)
(*                                                                         *)
(* SingleUseIfSerial is not inductive: it does not say that a request past *)
(* its denylist check finds its token unused, nor that a used token is on  *)
(* the list. Both are facts about what a request knows at each statement   *)
(* (JobOK), and survive the other workers' steps because burned, overlap   *)
(* and the expired tokens only grow.                                       *)
(***************************************************************************)
EXTENDS AuthTokens, TLAPS

IssuedIn(tok, j)  == tok[j] # None
ExpiredIn(tok, j) == tok[j] # None /\ tok[j].left < 0

\* What a request b knows at the statement it has reached.
JobOKIn(b, tok, brn, ovl, mnt) ==
    b # None =>
    /\ b.jti = None => b.op = "login" /\ b.at = "mint" /\ ~b.late
    /\ b.jti # None =>
          /\ b.op # "login"
          /\ IssuedIn(tok, b.jti)
          /\ b.late => b.jti \in brn
          /\ b.op = "logout" => b.at \notin {"check", "user", "mint"}
          /\ b.at = "user" /\ b.op = "mfa_verify" => b.jti \in brn
          /\ b.at = "mint" => b.jti \in brn
          /\ b.op # "logout" /\ b.at # "check" =>
                /\ b.late => ExpiredIn(tok, b.jti)
                /\ b.jti \notin ovl /\ ~ExpiredIn(tok, b.jti) => mnt[b.jti] = 0

JobsOK == \A w \in Workers : JobOKIn(job[w], token, burned, overlap, minted)

\* Two requests hold the same token only if it is counted as overlapping.
Alone ==
    \A v, w \in Workers :
        v # w /\ job[v] # None /\ job[w] # None /\ job[v].jti = job[w].jti
        => job[v].jti = None \/ job[v].jti \in overlap

\* A token that was exchanged once is burned.
ExchangedBurned ==
    \A j \in Jtis \ overlap :
        ~Expired(j) => minted[j] = 0 \/ (minted[j] = 1 /\ j \in burned)

BurnedIssued == denied \subseteq burned /\ \A j \in burned : Issued(j)

AuthInv ==
    /\ TypeOK
    /\ BurnedIssued
    /\ BurnedStaysDenied
    /\ JobsOK
    /\ Alone
    /\ ExchangedBurned

-----------------------------------------------------------------------------
\* What a request knows stays true while the others' steps add to burned and
\* overlap, issue tokens and let them expire.
LEMMA JobMonotone ==
    ASSUME NEW b, NEW tok, NEW brn, NEW ovl, NEW mnt,
           NEW tok2, NEW brn2, NEW ovl2, NEW mnt2,
           b # None => b.jti \in Jtis \cup {None},
           JobOKIn(b, tok, brn, ovl, mnt),
           brn \subseteq brn2, ovl \subseteq ovl2,
           \A j \in Jtis : IssuedIn(tok, j) => IssuedIn(tok2, j),
           \A j \in Jtis : ExpiredIn(tok, j) => ExpiredIn(tok2, j),
           b # None /\ b.jti # None /\ b.jti \notin ovl2 => mnt2[b.jti] = mnt[b.jti]
    PROVE  JobOKIn(b, tok2, brn2, ovl2, mnt2)
BY DEF JobOKIn

\* No token is issued and no request is under way at first.
LEMMA AuthInvInit == Init => AuthInv
BY AuthAssumption
   DEF Init, AuthInv, TypeOK, BurnedIssued, BurnedStaysDenied, JobsOK, JobOKIn, Alone,
       ExchangedBurned

\* A step of worker w that ends or advances its request and mints nothing.
\* It is enough to look at w's own request, and at the denylist.
LEMMA WorkerStep ==
    ASSUME AuthInv, NEW w \in Workers, job[w] # None,
           UNCHANGED <<token, active, mfa, overlap, minted>>,
           denied' \subseteq Jtis, burned' \subseteq Jtis,
           burned \subseteq burned', BurnedIssued', BurnedStaysDenied',
           \/ job' = [job EXCEPT ![w] = None]
           \/ \E stage \in Stages :
                 /\ job' = [job EXCEPT ![w] = [job[w] EXCEPT !.at = stage]]
                 /\ JobOKIn([job[w] EXCEPT !.at = stage], token, burned', overlap, minted)
    PROVE  AuthInv'
<1> USE AuthAssumption
<1>1. job[w] \in Job
  BY DEF AuthInv, TypeOK
<1>2. /\ job' \in [Workers -> Job \cup {None}]
      /\ \A v \in Workers \ {w} : job'[v] = job[v]
      /\ job'[w] # None => job'[w].jti = job[w].jti
      /\ JobOKIn(job'[w], token, burned', overlap, minted)
  <2>1. CASE job' = [job EXCEPT ![w] = None]
    BY <2>1 DEF AuthInv, TypeOK, JobOKIn
  <2>2. ASSUME NEW stage \in Stages,
               job' = [job EXCEPT ![w] = [job[w] EXCEPT !.at = stage]],
               JobOKIn([job[w] EXCEPT !.at = stage], token, burned', overlap, minted)
        PROVE  /\ job' \in [Workers -> Job \cup {None}]
               /\ \A v \in Workers \ {w} : job'[v] = job[v]
               /\ job'[w] # None => job'[w].jti = job[w].jti
               /\ JobOKIn(job'[w], token, burned', overlap, minted)
    <3> DEFINE b == [job[w] EXCEPT !.at = stage]
    <3>1. b \in Job /\ b.jti = job[w].jti
      BY <1>1, <2>2 DEF Job
    <3>2. job' = [job EXCEPT ![w] = b] /\ JobOKIn(b, token, burned', overlap, minted)
      BY <2>2
    <3> HIDE DEF b
    <3> QED
      BY <3>1, <3>2 DEF AuthInv, TypeOK
  <2> QED
    BY <2>1, <2>2
<1>3. TypeOK'
  BY <1>2 DEF AuthInv, TypeOK
<1>4. JobsOK'
  <2>1. ASSUME NEW v \in Workers \ {w}
        PROVE  JobOKIn(job[v], token, burned', overlap, minted)
    <3>1. JobOKIn(job[v], token, burned, overlap, minted)
      BY DEF AuthInv, JobsOK
    <3>2. job[v] # None => job[v].jti \in Jtis \cup {None}
      BY DEF AuthInv, TypeOK, Job
    <3> QED
      BY <3>1, <3>2 DEF JobOKIn
  <2> QED
    BY <1>2, <2>1 DEF JobsOK
<1>5. Alone'
  BY <1>2 DEF AuthInv, Alone
<1>6. ExchangedBurned'
  BY DEF AuthInv, ExchangedBurned, Expired, Issued
<1> QED
  BY <1>3, <1>4, <1>5, <1>6 DEF AuthInv

\* The statements of a request before it mints, in the order of the code.
LEMMA CheckKeeps ==
    ASSUME AuthInv, NEW w \in Workers, Check(w)
    PROVE  AuthInv'
<1> USE AuthAssumption
<1>1. /\ job[w] # None /\ job[w].at = "check"
      /\ UNCHANGED <<token, denied, active, mfa, burned, overlap, minted>>
  BY DEF Check
<1>2. /\ job[w] \in Job
      /\ JobOKIn(job[w], token, burned, overlap, minted)
  BY <1>1 DEF AuthInv, TypeOK, JobsOK
<1>3. /\ denied' \subseteq Jtis /\ burned' \subseteq Jtis /\ burned \subseteq burned'
      /\ BurnedIssued' /\ BurnedStaysDenied'
  BY <1>1 DEF AuthInv, TypeOK, BurnedIssued, BurnedStaysDenied, Issued, Expired
<1>4. CASE job[w].jti \in denied
  BY <1>1, <1>3, <1>4, WorkerStep DEF Check, Finish
<1>5. CASE job[w].jti \notin denied
  <2> DEFINE stage == IF job[w].op = "refresh" THEN "user" ELSE "purge"
             b == [job[w] EXCEPT !.at = stage]
  <2>1. stage \in Stages /\ job' = [job EXCEPT ![w] = [job[w] EXCEPT !.at = stage]]
    BY <1>5 DEF Check, Goto, Stages
  <2>2. b = [op |-> job[w].op, jti |-> job[w].jti, at |-> stage, late |-> job[w].late]
    BY <1>2 DEF Job
  <2>3. job[w].jti \in Jtis
    BY <1>1, <1>2 DEF JobOKIn, Job
  <2>4. job[w].jti \in burned => Expired(job[w].jti)
    BY <1>5 DEF AuthInv, BurnedStaysDenied
  <2>5. job[w].jti \notin overlap /\ ~Expired(job[w].jti) => minted[job[w].jti] = 0
    BY <2>3, <2>4 DEF AuthInv, ExchangedBurned
  <2>6. JobOKIn(b, token, burned', overlap, minted)
    BY <1>1, <1>2, <2>2, <2>4, <2>5 DEF JobOKIn, ExpiredIn, Expired, Issued
  <2> QED
    BY <1>1, <1>3, <2>1, <2>6, WorkerStep
<1> QED
  BY <1>4, <1>5

\* Reading the user row (refresh_access_token, mfa_verify) changes no token.
LEMMA ReadUserKeeps ==
    ASSUME AuthInv, NEW w \in Workers, ReadUser(w)
    PROVE  AuthInv'
<1> USE AuthAssumption
<1>1. /\ job[w] # None /\ job[w].at = "user"
      /\ UNCHANGED <<token, denied, active, mfa, burned, overlap, minted>>
  BY DEF ReadUser
<1>2. /\ job[w] \in Job
      /\ JobOKIn(job[w], token, burned, overlap, minted)
  BY <1>1 DEF AuthInv, TypeOK, JobsOK
<1>3. /\ denied' \subseteq Jtis /\ burned' \subseteq Jtis /\ burned \subseteq burned'
      /\ BurnedIssued' /\ BurnedStaysDenied'
  BY <1>1 DEF AuthInv, TypeOK, BurnedIssued, BurnedStaysDenied, Issued, Expired
<1>4. CASE Finish(w)
  BY <1>1, <1>3, <1>4, WorkerStep DEF Finish
<1>5. CASE Goto(w, IF job[w].op = "refresh" THEN "purge" ELSE "mint")
  <2> DEFINE stage == IF job[w].op = "refresh" THEN "purge" ELSE "mint"
             b == [job[w] EXCEPT !.at = stage]
  <2>1. stage \in Stages /\ job' = [job EXCEPT ![w] = [job[w] EXCEPT !.at = stage]]
    BY <1>5 DEF Goto, Stages
  <2>2. b = [op |-> job[w].op, jti |-> job[w].jti, at |-> stage, late |-> job[w].late]
    BY <1>2 DEF Job
  <2>3. job[w].op \in {"refresh", "mfa_verify"}
    BY <1>1, <1>2 DEF JobOKIn, Job, Operations
  <2>4. JobOKIn(b, token, burned', overlap, minted)
    BY <1>1, <1>2, <2>2, <2>3 DEF JobOKIn
  <2> QED
    BY <1>1, <1>3, <2>1, <2>4, WorkerStep
<1> QED
  BY <1>4, <1>5 DEF ReadUser

\* The purge of _revoke_jti drops rows of expired tokens only.
LEMMA PurgeKeeps ==
    ASSUME AuthInv, NEW w \in Workers, Purge(w)
    PROVE  AuthInv'
<1> USE AuthAssumption
<1>1. /\ job[w] # None /\ job[w].at = "purge"
      /\ denied' = {j \in denied : ~Expired(j)}
      /\ UNCHANGED <<token, active, mfa, burned, overlap, minted>>
      /\ job' = [job EXCEPT ![w] = [job[w] EXCEPT !.at = "count"]]
  BY DEF Purge, Goto
<1>2. /\ job[w] \in Job
      /\ JobOKIn(job[w], token, burned, overlap, minted)
  BY <1>1 DEF AuthInv, TypeOK, JobsOK
<1>3. /\ denied' \subseteq Jtis /\ burned' \subseteq Jtis /\ burned \subseteq burned'
      /\ BurnedIssued' /\ BurnedStaysDenied'
  BY <1>1 DEF AuthInv, TypeOK, BurnedIssued, BurnedStaysDenied, Issued, Expired
<1> DEFINE b == [job[w] EXCEPT !.at = "count"]
<1>4. b = [op |-> job[w].op, jti |-> job[w].jti, at |-> "count", late |-> job[w].late]
  BY <1>2 DEF Job
<1>5. JobOKIn(b, token, burned', overlap, minted)
  BY <1>1, <1>2, <1>4 DEF JobOKIn
<1>6. "count" \in Stages
  BY DEF Stages
<1> QED
  BY <1>1, <1>3, <1>5, <1>6, WorkerStep

\* After _revoke_jti the request ends, or goes on with a burned token.
LEMMA RevokedKeeps ==
    ASSUME AuthInv, NEW w \in Workers, job[w] # None,
           job[w].at \in {"count", "insert"}, Revoked(w),
           UNCHANGED <<token, active, mfa, overlap, minted>>,
           denied' \subseteq Jtis, burned' \subseteq Jtis, burned \subseteq burned',
           BurnedIssued', BurnedStaysDenied', job[w].jti \in burned'
    PROVE  AuthInv'
<1> USE AuthAssumption
<1>2. /\ job[w] \in Job
      /\ JobOKIn(job[w], token, burned, overlap, minted)
  BY DEF AuthInv, TypeOK, JobsOK
<1>3. job[w].op \in {"refresh", "mfa_verify", "logout"}
  BY <1>2 DEF JobOKIn, Job, Operations
<1>4. ASSUME NEW stage \in {"mint", "user"}, job[w].op # "logout",
             stage = "user" => job[w].op = "mfa_verify", Goto(w, stage)
      PROVE  AuthInv'
  <2> DEFINE b == [job[w] EXCEPT !.at = stage]
  <2>1. stage \in Stages /\ job' = [job EXCEPT ![w] = [job[w] EXCEPT !.at = stage]]
    BY <1>4 DEF Goto, Stages
  <2>2. b = [op |-> job[w].op, jti |-> job[w].jti, at |-> stage, late |-> job[w].late]
    BY <1>2 DEF Job
  <2>3. JobOKIn(b, token, burned', overlap, minted)
    BY <1>2, <1>4, <2>2 DEF JobOKIn
  <2> QED
    BY <2>1, <2>3, WorkerStep
<1>5. CASE job[w].op = "refresh"
  BY <1>4, <1>5 DEF Revoked
<1>6. CASE job[w].op = "mfa_verify"
  BY <1>4, <1>6 DEF Revoked
<1>7. CASE job[w].op = "logout"
  <2>1. Finish(w)
    BY <1>7 DEF Revoked
  <2> QED
    BY <2>1, WorkerStep DEF Finish
<1> QED
  BY <1>3, <1>5, <1>6, <1>7

\* Finding the jti on the denylist lets the request go on; it is burned then.
LEMMA CountKeeps ==
    ASSUME AuthInv, NEW w \in Workers, Count(w)
    PROVE  AuthInv'
<1> USE AuthAssumption
<1>1. /\ job[w] # None /\ job[w].at = "count"
      /\ UNCHANGED <<token, denied, active, mfa, burned, overlap, minted>>
  BY DEF Count
<1>2. /\ job[w] \in Job
      /\ JobOKIn(job[w], token, burned, overlap, minted)
  BY <1>1 DEF AuthInv, TypeOK, JobsOK
<1>3. /\ denied' \subseteq Jtis /\ burned' \subseteq Jtis /\ burned \subseteq burned'
      /\ BurnedIssued' /\ BurnedStaysDenied'
  BY <1>1 DEF AuthInv, TypeOK, BurnedIssued, BurnedStaysDenied, Issued, Expired
<1>4. CASE job[w].jti \in denied
  <2>1. job[w].jti \in burned' /\ Revoked(w)
    BY <1>1, <1>4 DEF Count, AuthInv, BurnedIssued
  <2> QED
    BY <1>1, <1>3, <2>1, RevokedKeeps
<1>5. CASE job[w].jti \notin denied
  <2> DEFINE b == [job[w] EXCEPT !.at = "insert"]
  <2>1. "insert" \in Stages /\ job' = [job EXCEPT ![w] = [job[w] EXCEPT !.at = "insert"]]
    BY <1>5 DEF Count, Goto, Stages
  <2>2. b = [op |-> job[w].op, jti |-> job[w].jti, at |-> "insert", late |-> job[w].late]
    BY <1>2 DEF Job
  <2>3. JobOKIn(b, token, burned', overlap, minted)
    BY <1>1, <1>2, <2>2 DEF JobOKIn
  <2> QED
    BY <1>1, <1>3, <2>1, <2>3, WorkerStep
<1> QED
  BY <1>4, <1>5

\* The insert of _revoke_jti burns the token of the request that runs it.
LEMMA InsertKeeps ==
    ASSUME AuthInv, NEW w \in Workers, Insert(w)
    PROVE  AuthInv'
<1> USE AuthAssumption
<1>1. /\ job[w] # None /\ job[w].at = "insert"
      /\ denied' = denied \cup {job[w].jti}
      /\ burned' = burned \cup {job[w].jti}
      /\ UNCHANGED <<token, active, mfa, overlap, minted>>
  BY DEF Insert
<1>2. /\ job[w] \in Job
      /\ JobOKIn(job[w], token, burned, overlap, minted)
  BY <1>1 DEF AuthInv, TypeOK, JobsOK
<1>3. job[w].jti \in Jtis /\ Issued(job[w].jti)
  BY <1>1, <1>2 DEF JobOKIn, Job, IssuedIn, Issued
<1>4. /\ denied' \subseteq Jtis /\ burned' \subseteq Jtis /\ burned \subseteq burned'
      /\ BurnedIssued' /\ BurnedStaysDenied'
  BY <1>1, <1>3 DEF AuthInv, TypeOK, BurnedIssued, BurnedStaysDenied, Issued, Expired
<1>5. CASE Finish(w)
  BY <1>1, <1>4, <1>5, WorkerStep DEF Finish
<1>6. CASE Revoked(w)
  BY <1>1, <1>4, <1>6, RevokedKeeps
<1> QED
  BY <1>5, <1>6 DEF Insert

\* Issuing a token: the new jti is in nobody's hands, and the exchanged one is
\* burned and held by no other request unless it is counted as overlapping.
LEMMA MintKeeps ==
    ASSUME AuthInv, NEW w \in Workers, Mint(w)
    PROVE  AuthInv'
<1> USE AuthAssumption
<1>1. /\ job[w] # None /\ job[w].at = "mint"
      /\ job' = [job EXCEPT ![w] = None]
      /\ minted' = IF job[w].jti = None THEN minted
                   ELSE [minted EXCEPT ![job[w].jti] = minted[job[w].jti] + 1]
      /\ UNCHANGED <<denied, active, mfa, burned, overlap>>
  BY DEF Mint, Finish
<1>2. PICK k \in Jtis : \E kind \in Kinds :
         ~Issued(k) /\ token' = [token EXCEPT ![k] = [kind |-> kind, left |-> Life(kind)]]
  BY DEF Mint
<1>3. PICK kind \in Kinds :
         ~Issued(k) /\ token' = [token EXCEPT ![k] = [kind |-> kind, left |-> Life(kind)]]
  BY <1>2
<1> DEFINE t == [kind |-> kind, left |-> Life(kind)]
<1>4. t \in Token /\ t # None /\ ~(t.left < 0)
  BY DEF Token, Kinds, Life, Lives, AuthAssumption
<1>5. /\ token'[k] = t /\ \A j \in Jtis \ {k} : token'[j] = token[j]
      /\ token' \in [Jtis -> Token \cup {None}]
  BY <1>3, <1>4 DEF AuthInv, TypeOK
<1> HIDE DEF t
<1>6. \A j \in Jtis : /\ Issued(j) => Issued(j)'
                      /\ Expired(j)' <=> Expired(j)
  BY <1>3, <1>4, <1>5 DEF Issued, Expired
<1>7. /\ job[w] \in Job
      /\ JobOKIn(job[w], token, burned, overlap, minted)
  BY <1>1 DEF AuthInv, TypeOK, JobsOK
<1>8. job[w].jti # None =>
         /\ job[w].jti \in Jtis /\ job[w].jti \in burned
         /\ job[w].jti \notin overlap /\ ~Expired(job[w].jti) => minted[job[w].jti] = 0
  BY <1>1, <1>7 DEF JobOKIn, Job, ExpiredIn, Expired, Issued
<1>9. minted \in [Jtis -> Nat]
  BY DEF AuthInv, TypeOK
<1>10. /\ minted' \in [Jtis -> Nat]
       /\ \A j \in Jtis : j # job[w].jti => minted'[j] = minted[j]
       /\ job[w].jti # None => minted'[job[w].jti] = minted[job[w].jti] + 1
  BY <1>1, <1>8, <1>9
<1>11. TypeOK'
  BY <1>1, <1>5, <1>10 DEF AuthInv, TypeOK
<1>12. BurnedIssued' /\ BurnedStaysDenied'
  BY <1>1, <1>6 DEF AuthInv, TypeOK, BurnedIssued, BurnedStaysDenied
<1>13. job'[w] = None /\ \A v \in Workers \ {w} : job'[v] = job[v]
  BY <1>1 DEF AuthInv, TypeOK
<1>14. ASSUME NEW v \in Workers \ {w}
       PROVE  JobOKIn(job[v], token', burned', overlap', minted')
  <2>1. JobOKIn(job[v], token, burned, overlap, minted)
    BY DEF AuthInv, JobsOK
  <2>2. job[v] # None => job[v].jti \in Jtis \cup {None}
    BY DEF AuthInv, TypeOK, Job
  <2>3. job[v] # None /\ job[v].jti # None /\ job[v].jti \notin overlap'
        => minted'[job[v].jti] = minted[job[v].jti]
    BY <1>1, <1>10, <2>2 DEF AuthInv, Alone
  <2>4. \A j \in Jtis : /\ IssuedIn(token, j) => IssuedIn(token', j)
                        /\ ExpiredIn(token, j) => ExpiredIn(token', j)
    BY <1>6 DEF IssuedIn, ExpiredIn, Issued, Expired
  <2>5. burned \subseteq burned' /\ overlap \subseteq overlap'
    BY <1>1
  <2> QED
    BY <2>1, <2>2, <2>3, <2>4, <2>5, JobMonotone
<1>15. JobsOK'
  BY <1>13, <1>14 DEF JobsOK, JobOKIn
<1>16. Alone'
  BY <1>1, <1>13 DEF AuthInv, Alone
<1>17. ExchangedBurned'
  <2>1. ASSUME NEW j \in Jtis \ overlap, ~Expired(j)
        PROVE  minted'[j] = 0 \/ (minted'[j] = 1 /\ j \in burned)
    BY <1>8, <1>9, <1>10, <2>1 DEF AuthInv, ExchangedBurned
  <2> QED
    BY <1>1, <1>6, <2>1 DEF ExchangedBurned
<1> QED
  BY <1>11, <1>12, <1>15, <1>16, <1>17 DEF AuthInv

\* A request arrives with a token.
LEMMA PresentKeeps ==
    ASSUME AuthInv, NEW w \in Workers, NEW op \in Operations, NEW j \in Jtis,
           Present(w, op, j)
    PROVE  AuthInv'
<1> USE AuthAssumption
<1> DEFINE b == [op |-> op, jti |-> j, at |-> FirstStage(op), late |-> j \in burned]
<1>1. /\ job[w] = None /\ op # "login" /\ Issued(j)
      /\ job' = [job EXCEPT ![w] = b]
      /\ overlap' = IF \E v \in Workers : job[v] # None /\ job[v].jti = j
                    THEN overlap \cup {j} ELSE overlap
      /\ UNCHANGED <<token, denied, active, mfa, burned, minted>>
  BY DEF Present, Decodes
<1>2. b \in Job /\ b.jti = j /\ b # None
  <2>1. FirstStage(op) \in Stages /\ (j \in burned) \in BOOLEAN
    BY DEF FirstStage, Stages
  <2>2. b \in Job /\ b.jti = j
    BY <2>1 DEF Job
  <2> QED
    BY <2>2 DEF AuthAssumption
<1>3. JobOKIn(b, token, burned, overlap', minted)
  BY <1>1 DEF JobOKIn, FirstStage, IssuedIn, Issued
<1> HIDE DEF b
<1>4. job'[w] = b /\ \A v \in Workers \ {w} : job'[v] = job[v]
  BY <1>1 DEF AuthInv, TypeOK
<1>5. overlap \subseteq overlap' /\ overlap' \subseteq Jtis
  BY <1>1 DEF AuthInv, TypeOK
<1>6. TypeOK'
  BY <1>1, <1>2, <1>5 DEF AuthInv, TypeOK
<1>7. BurnedIssued' /\ BurnedStaysDenied' /\ ExchangedBurned'
  BY <1>1, <1>5 DEF AuthInv, BurnedIssued, BurnedStaysDenied, ExchangedBurned, Issued, Expired
<1>8. ASSUME NEW v \in Workers \ {w}
      PROVE  JobOKIn(job[v], token, burned, overlap', minted)
  <2>1. JobOKIn(job[v], token, burned, overlap, minted)
    BY DEF AuthInv, JobsOK
  <2> QED
    BY <1>5, <2>1 DEF JobOKIn
<1>9. JobsOK'
  BY <1>1, <1>3, <1>4, <1>8 DEF JobsOK
<1>10. Alone'
  <2>1. ASSUME NEW v \in Workers \ {w}, job[v] # None, job[v].jti = j
        PROVE  j \in overlap'
    BY <1>1, <2>1
  <2> QED
    BY <1>2, <1>4, <1>5, <2>1 DEF AuthInv, Alone
<1> QED
  BY <1>6, <1>7, <1>9, <1>10 DEF AuthInv

\* A login presents no token.
LEMMA LoginKeeps ==
    ASSUME AuthInv, NEW w \in Workers, Login(w)
    PROVE  AuthInv'
<1> USE AuthAssumption
<1> DEFINE b == [op |-> "login", jti |-> None, at |-> "mint", late |-> FALSE]
<1>1. /\ job[w] = None
      /\ job' = [job EXCEPT ![w] = b]
      /\ UNCHANGED <<token, denied, active, mfa, burned, overlap, minted>>
  BY DEF Login
<1>2. b \in Job /\ b.jti = None /\ b # None
  <2>1. b \in Job /\ b.jti = None
    BY DEF Job, Stages, Operations
  <2> HIDE DEF b
  <2> QED
    BY <2>1 DEF AuthAssumption
<1>3. JobOKIn(b, token, burned, overlap, minted)
  BY DEF JobOKIn
<1> HIDE DEF b
<1>4. job'[w] = b /\ \A v \in Workers \ {w} : job'[v] = job[v]
  BY <1>1 DEF AuthInv, TypeOK
<1>5. TypeOK'
  BY <1>1, <1>2 DEF AuthInv, TypeOK
<1>6. BurnedIssued' /\ BurnedStaysDenied' /\ ExchangedBurned'
  BY <1>1 DEF AuthInv, BurnedIssued, BurnedStaysDenied, ExchangedBurned, Issued, Expired
<1>7. JobsOK'
  BY <1>1, <1>3, <1>4 DEF AuthInv, JobsOK
<1>8. Alone'
  BY <1>1, <1>2, <1>4 DEF AuthInv, Alone
<1> QED
  BY <1>5, <1>6, <1>7, <1>8 DEF AuthInv

\* A request that is killed leaves what it wrote and nothing else.
LEMMA AbortKeeps ==
    ASSUME AuthInv, NEW w \in Workers, Abort(w)
    PROVE  AuthInv'
<1>1. /\ job[w] # None
      /\ job' = [job EXCEPT ![w] = None]
      /\ UNCHANGED <<token, denied, active, mfa, burned, overlap, minted>>
  BY DEF Abort, Finish
<1>2. /\ denied' \subseteq Jtis /\ burned' \subseteq Jtis /\ burned \subseteq burned'
      /\ BurnedIssued' /\ BurnedStaysDenied'
  BY <1>1 DEF AuthInv, TypeOK, BurnedIssued, BurnedStaysDenied, Issued, Expired
<1> QED
  BY <1>1, <1>2, WorkerStep

\* Time lets tokens expire, and never un-expires one.
LEMMA TickKeeps ==
    ASSUME AuthInv, Tick
    PROVE  AuthInv'
<1> USE AuthAssumption
<1>1. /\ token' = [j \in Jtis |-> Older(token[j])]
      /\ UNCHANGED <<denied, active, mfa, job, burned, overlap, minted>>
  BY DEF Tick
<1>2. ASSUME NEW t \in Token, t # None
      PROVE  /\ Older(t) \in Token /\ Older(t) # None
             /\ t.left < 0 => Older(t).left < 0
  BY <1>2 DEF Older, Token, Lives, AuthAssumption
<1>3. Older(None) = None
  BY DEF Older
<1>4. \A j \in Jtis : /\ token'[j] \in Token \cup {None}
                      /\ Issued(j) <=> Issued(j)'
                      /\ Expired(j) => Expired(j)'
  BY <1>1, <1>2, <1>3 DEF AuthInv, TypeOK, Issued, Expired
<1>5. TypeOK'
  BY <1>1, <1>4 DEF AuthInv, TypeOK
<1>6. BurnedIssued' /\ BurnedStaysDenied' /\ ExchangedBurned' /\ Alone'
  BY <1>1, <1>4 DEF AuthInv, TypeOK, BurnedIssued, BurnedStaysDenied, ExchangedBurned, Alone
<1>7. JobsOK'
  <2>1. ASSUME NEW w \in Workers
        PROVE  JobOKIn(job[w], token', burned, overlap, minted)
    <3>1. JobOKIn(job[w], token, burned, overlap, minted)
      BY DEF AuthInv, JobsOK
    <3>2. job[w] # None => job[w].jti \in Jtis \cup {None}
      BY DEF AuthInv, TypeOK, Job
    <3>3. \A j \in Jtis : /\ IssuedIn(token, j) => IssuedIn(token', j)
                          /\ ExpiredIn(token, j) => ExpiredIn(token', j)
      BY <1>4 DEF IssuedIn, ExpiredIn, Issued, Expired
    <3> QED
      BY <3>1, <3>2, <3>3, JobMonotone
  <2> QED
    BY <1>1, <2>1 DEF JobsOK
<1> QED
  BY <1>5, <1>6, <1>7 DEF AuthInv

\* Every statement of every worker, and time, keeps the invariant.
LEMMA AuthInvNext == AuthInv /\ [Next]_vars => AuthInv'
<1> SUFFICES ASSUME AuthInv, [Next]_vars PROVE AuthInv'
  OBVIOUS
<1>1. ASSUME NEW w \in Workers, Work(w) PROVE AuthInv'
  BY <1>1, CheckKeeps, ReadUserKeeps, PurgeKeeps, CountKeeps, InsertKeeps, MintKeeps DEF Work
<1>2. ASSUME NEW w \in Workers, Login(w) PROVE AuthInv'
  BY <1>2, LoginKeeps
<1>3. ASSUME NEW w \in Workers, Abort(w) PROVE AuthInv'
  BY <1>3, AbortKeeps
<1>4. ASSUME NEW w \in Workers, NEW op \in Operations, NEW j \in Jtis, Present(w, op, j)
      PROVE  AuthInv'
  BY <1>4, PresentKeeps
<1>5. CASE Tick
  BY <1>5, TickKeeps
<1>6. CASE SetActive
  BY <1>6 DEF SetActive, AuthInv, TypeOK, BurnedIssued, BurnedStaysDenied, JobsOK, Alone,
              ExchangedBurned, Issued, Expired
<1>7. CASE UNCHANGED vars
  BY <1>7 DEF vars, AuthInv, TypeOK, BurnedIssued, BurnedStaysDenied, JobsOK, Alone,
              ExchangedBurned, Issued, Expired
<1> QED
  BY <1>1, <1>2, <1>3, <1>4, <1>5, <1>6, <1>7 DEF Next

\* The invariant holds in every reachable state.
LEMMA AuthInvariant == Spec => []AuthInv
BY AuthInvInit, AuthInvNext, PTL DEF Spec

\* Tokens, the denylist and the workers' requests keep their types.
THEOREM AuthTypeCorrect == Spec => []TypeOK
<1>1. AuthInv => TypeOK
  BY DEF AuthInv
<1> QED
  BY <1>1, AuthInvariant, PTL

\* The purge in _revoke_jti never removes a jti whose token still decodes.
THEOREM AuthBurnedStaysDenied == Spec => []BurnedStaysDenied
<1>1. AuthInv => BurnedStaysDenied
  BY DEF AuthInv
<1> QED
  BY <1>1, AuthInvariant, PTL

\* A request that arrives after a token was rotated or logged out is not given
\* a new one for it, whatever the other workers do meanwhile.
THEOREM AuthLateRequestsMintNothing == Spec => []LateRequestsMintNothing
<1>1. AuthInv => LateRequestsMintNothing
  BY DEF AuthInv, JobsOK, JobOKIn, LateRequestsMintNothing, ExpiredIn, Expired, Issued
<1> QED
  BY <1>1, AuthInvariant, PTL

\* A refresh or pre-auth token that is never in two requests at a time is
\* exchanged at most once while it lives.
THEOREM AuthSingleUseIfSerial == Spec => []SingleUseIfSerial
<1>1. AuthInv => SingleUseIfSerial
  BY DEF AuthInv, ExchangedBurned, SingleUseIfSerial
<1> QED
  BY <1>1, AuthInvariant, PTL
=============================================================================
