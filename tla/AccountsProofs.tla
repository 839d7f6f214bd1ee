--------------------------- MODULE AccountsProofs ---------------------------
(***************************************************************************)
(* Theorems about Accounts for every set of requests and countries and     *)
(* every bound on failures.                                                *)
(*                                                                         *)
(* The rows alone are not inductive: a save writes what its request read,  *)
(* so each part of the invariant also says what the instances in hand are  *)
(* worth.  Kept: as long as nobody raced, a fresh instance is the row.     *)
(* Proven: an instance that is verified was read from a verified row.      *)
(* Hashes: the hash a request is about to set is not in use yet.  Flagged:  *)
(* a row whose flag is wrong was written by an update that is not done.     *)
(***************************************************************************)
EXTENDS Accounts, TLAPS

-----------------------------------------------------------------------------
(* The inductive invariant                                                 *)

\* Requests about to save the instance they have read.
Savers == {"verify", "reset", "change", "profile", "names"}

\* Requests that still have a hash to set, if they set one at all.
Unhashed == {"new", "insert", "reset", "change"}

\* Who works on the account has an account; the hashes it will write or mail
\* and the link it presents are those of requests.
Known == /\ user = NoUser \/ user.pw \in Requests
         /\ \A r \in Requests :
              /\ pc[r] \in Savers \cup {"addprofile", "mail", "appuser"} =>
                   user.pw \in Requests /\ mine[r].pw \in Requests
              /\ pc[r] = "reset" => link[r] \in Requests

Kept == ~raced => /\ user = latest
                  /\ \A r \in fresh : pc[r] \in Savers => mine[r] = user

Proven ==
  /\ user.verified \/ session => latest.verified
  /\ user = NoUser => ~latest.verified
  /\ \A r \in Requests : mine[r].verified => latest.verified
  /\ ~undone => /\ latest.verified => user.verified
                /\ \A r \in Requests :
                     pc[r] \in {"change", "profile", "appuser", "names"} => mine[r].verified

Hashes ==
  /\ \A r \in Requests : pc[r] \in Unhashed =>
       /\ r # user.pw /\ r \notin spent
       /\ \A q \in Requests : r # mine[q].pw
  /\ \A r \in Requests : pc[r] = "reset" => link[r] = mine[r].pw
  /\ ~raced => user.pw \notin spent /\ ~twice

\* The row is right, or it is what an update that has yet to save its flag has
\* written, without a country that was deleted since.
Flagged ==
  ~halfway =>
    \/ profile.flag = Complete(profile) \/ Outlived(profile)
    \/ \E r \in Requests :
         /\ pc[r] = "flag"
         /\ profile.rest = own[r].rest /\ profile.flag = own[r].flag
         /\ \/ profile.country = own[r].country
            \/ profile.country = NoOne /\ own[r].country \notin countries

Inv == TypeOK /\ Known /\ Kept /\ Proven /\ Hashes /\ Flagged

-----------------------------------------------------------------------------
\* Rows have their types, and keep them under the changes the requests make.
LEMMA UserRows ==
  /\ NoUser \in UserRow
  /\ \A r \in Requests : [pw |-> r, verified |-> FALSE, names |-> r] \in UserRow
  /\ \A u \in UserRow, r \in Requests : /\ [u EXCEPT !.pw = r] \in UserRow
                                       /\ [u EXCEPT !.verified = TRUE] \in UserRow
                                       /\ [u EXCEPT !.names = r] \in UserRow
BY DEF UserRow, NoUser

LEMMA ProfileRows ==
  /\ NoProfile \in ProfileRow /\ Blank \in ProfileRow
  /\ NoProfile.country = NoOne /\ Blank.country = NoOne
  /\ \A p \in ProfileRow, c \in Countries \cup {NoOne}, full \in BOOLEAN :
       /\ [p EXCEPT !.country = c, !.rest = full] \in ProfileRow
       /\ [p EXCEPT !.country = c] \in ProfileRow
       /\ [p EXCEPT !.flag = full] \in ProfileRow
       /\ [p EXCEPT !.country = c].country = c
       /\ [p EXCEPT !.flag = full].country = p.country
BY DEF ProfileRow, NoProfile, Blank

LEMMA InitInv == Init => Inv
<1> SUFFICES ASSUME Init PROVE Inv
  OBVIOUS
<1> USE NoOneAssumption, FaultsAssumption DEF Init
<1>1. TypeOK
  <2>1. pc \in [Requests -> Labels] /\ faults \in 0..MaxFaults
    BY DEF Labels
  <2>2. user \in UserRow /\ latest \in UserRow /\ mine \in [Requests -> UserRow]
    BY UserRows
  <2>3. profile \in ProfileRow /\ own \in [Requests -> ProfileRow] /\ ~Dangles(profile)
    BY ProfileRows DEF Dangles
  <2> QED
    BY <2>1, <2>2, <2>3 DEF TypeOK
<1>2. Known /\ Kept /\ Proven
  BY DEF Known, Kept, Proven, Savers, NoUser
<1>3. Hashes
  BY DEF Hashes, Unhashed, NoUser
<1>4. Flagged
  BY DEF Flagged, Complete, NoProfile
<1> QED
  BY <1>1, <1>2, <1>3, <1>4 DEF Inv

\* Every step preserves the types of the variables.
LEMMA TypeStep == Inv /\ [Next]_vars => TypeOK'
<1> SUFFICES ASSUME TypeOK, Known, [Next]_vars PROVE TypeOK'
  BY DEF Inv
<1>a. \A r \in Requests : Fails(r) => faults' \in 0..MaxFaults
  BY FaultsAssumption DEF TypeOK, Fails
<1>b. \A r \in Requests : Mail(r) => mine[r].pw \in Requests
  BY DEF Known, Mail, Goto
<1> USE <1>a, <1>b, NoOneAssumption, UserRows, ProfileRows
    DEF TypeOK, Goto, Dangles, Labels, rows, clientVars, outcome, history
<1>1. ASSUME NEW r \in Requests, Refused(r) PROVE TypeOK'
  BY <1>1 DEF Refused
<1>2. ASSUME NEW r \in Requests, Register(r) PROVE TypeOK'
  BY <1>2 DEF Register
<1>3. ASSUME NEW r \in Requests, Insert(r) PROVE TypeOK'
  BY <1>3 DEF Insert
<1>4. ASSUME NEW r \in Requests, AddProfile(r) PROVE TypeOK'
  BY <1>4 DEF AddProfile
<1>5. ASSUME NEW r \in Requests, AskForLink(r) PROVE TypeOK'
  BY <1>5 DEF AskForLink, ReadUser
<1>6. ASSUME NEW r \in Requests, Mail(r) PROVE TypeOK'
  BY <1>6 DEF Mail
<1>7. ASSUME NEW r \in Requests, VerifyEmail(r) PROVE TypeOK'
  BY <1>7 DEF VerifyEmail, ReadUser
<1>8. ASSUME NEW r \in Requests, SaveVerified(r) PROVE TypeOK'
  BY <1>8 DEF SaveVerified, SaveUser
<1>9. ASSUME NEW r \in Requests, NEW l \in Requests, ResetPassword(r, l) PROVE TypeOK'
  BY <1>9 DEF ResetPassword, ReadUser
<1>10. ASSUME NEW r \in Requests, SaveReset(r) PROVE TypeOK'
  BY <1>10 DEF SaveReset, SaveUser, Known, Savers
<1>11. CASE Login
  BY <1>11 DEF Login, requestVars
<1>12. ASSUME NEW r \in Requests, ChangePassword(r) PROVE TypeOK'
  BY <1>12 DEF ChangePassword, ReadUser
<1>13. ASSUME NEW r \in Requests, SaveChange(r) PROVE TypeOK'
  BY <1>13 DEF SaveChange, SaveUser
<1>14. ASSUME NEW r \in Requests, Authenticate(r) PROVE TypeOK'
  BY <1>14 DEF Authenticate, ReadUser
<1>15. ASSUME NEW r \in Requests, CheckProfile(r) PROVE TypeOK'
  BY <1>15 DEF CheckProfile
<1>16. ASSUME NEW r \in Requests, LoadProfile(r) PROVE TypeOK'
  BY <1>16 DEF LoadProfile
<1>17. ASSUME NEW r \in Requests, LoadUser(r) PROVE TypeOK'
  BY <1>17 DEF LoadUser, ReadUser
<1>18. ASSUME NEW r \in Requests, SaveNames(r) PROVE TypeOK'
  BY <1>18 DEF SaveNames, SaveUser
<1>19. ASSUME NEW r \in Requests, NoNames(r) PROVE TypeOK'
  BY <1>19 DEF NoNames
<1>20. ASSUME NEW r \in Requests, NEW c \in Countries \cup {NoOne}, NEW full \in BOOLEAN,
              SaveFields(r, c, full)
       PROVE  TypeOK'
  BY <1>20 DEF SaveFields
<1>21. ASSUME NEW r \in Requests, SaveFlag(r) PROVE TypeOK'
  BY <1>21 DEF SaveFlag, Complete
<1>22. ASSUME NEW c \in Countries, DeleteCountry(c) PROVE TypeOK'
  BY <1>22 DEF DeleteCountry, requestVars
<1>23. ASSUME NEW r \in Requests, Fails(r) PROVE TypeOK'
  BY <1>23 DEF Fails
<1>24. CASE UNCHANGED vars
  BY <1>24 DEF vars, requestVars
<1> HIDE DEF TypeOK, Goto, Dangles, Labels, rows, clientVars, outcome, history
<1> QED
  BY <1>1, <1>2, <1>3, <1>4, <1>5, <1>6, <1>7, <1>8, <1>9, <1>10, <1>11, <1>12, <1>13,
     <1>14, <1>15, <1>16, <1>17, <1>18, <1>19, <1>20, <1>21, <1>22, <1>23, <1>24
     DEF Next, Signs, Proves, Updates

\* Every step keeps the account with those who work on it.
LEMMA KnownStep == Inv /\ [Next]_vars => Known'
<1> SUFFICES ASSUME TypeOK, Known, [Next]_vars PROVE Known'
  BY DEF Inv
<1>a. user.verified => user.pw \in Requests
  BY DEF Known, NoUser
<1> USE NoOneAssumption, <1>a
    DEF TypeOK, Known, Savers, UserRow, Goto, rows, clientVars, outcome, history
<1>1. ASSUME NEW r \in Requests, Refused(r) PROVE Known'
  BY <1>1 DEF Refused
<1>2. ASSUME NEW r \in Requests, Register(r) PROVE Known'
  BY <1>2 DEF Register
<1>3. ASSUME NEW r \in Requests, Insert(r) PROVE Known'
  BY <1>3 DEF Insert
<1>4. ASSUME NEW r \in Requests, AddProfile(r) PROVE Known'
  BY <1>4 DEF AddProfile
<1>5. ASSUME NEW r \in Requests, AskForLink(r) PROVE Known'
  BY <1>5 DEF AskForLink, ReadUser
<1>6. ASSUME NEW r \in Requests, Mail(r) PROVE Known'
  BY <1>6 DEF Mail
<1>7. ASSUME NEW r \in Requests, VerifyEmail(r) PROVE Known'
  BY <1>7 DEF VerifyEmail, ReadUser, GoodLink
<1>8. ASSUME NEW r \in Requests, SaveVerified(r) PROVE Known'
  BY <1>8 DEF SaveVerified, SaveUser
<1>9. ASSUME NEW r \in Requests, NEW l \in Requests, ResetPassword(r, l) PROVE Known'
  BY <1>9 DEF ResetPassword, ReadUser, GoodLink
<1>10. ASSUME NEW r \in Requests, SaveReset(r) PROVE Known'
  BY <1>10 DEF SaveReset, SaveUser
<1>11. CASE Login
  BY <1>11 DEF Login, requestVars
<1>12. ASSUME NEW r \in Requests, ChangePassword(r) PROVE Known'
  BY <1>12 DEF ChangePassword, ReadUser, Admitted
<1>13. ASSUME NEW r \in Requests, SaveChange(r) PROVE Known'
  BY <1>13 DEF SaveChange, SaveUser
<1>14. ASSUME NEW r \in Requests, Authenticate(r) PROVE Known'
  BY <1>14 DEF Authenticate, ReadUser, Admitted
<1>15. ASSUME NEW r \in Requests, CheckProfile(r) PROVE Known'
  BY <1>15 DEF CheckProfile
<1>16. ASSUME NEW r \in Requests, LoadProfile(r) PROVE Known'
  BY <1>16 DEF LoadProfile
<1>17. ASSUME NEW r \in Requests, LoadUser(r) PROVE Known'
  BY <1>17 DEF LoadUser, ReadUser
<1>18. ASSUME NEW r \in Requests, SaveNames(r) PROVE Known'
  BY <1>18 DEF SaveNames, SaveUser
<1>19. ASSUME NEW r \in Requests, NoNames(r) PROVE Known'
  BY <1>19 DEF NoNames
<1>20. ASSUME NEW r \in Requests, NEW c \in Countries \cup {NoOne}, NEW full \in BOOLEAN,
              SaveFields(r, c, full)
       PROVE  Known'
  BY <1>20 DEF SaveFields
<1>21. ASSUME NEW r \in Requests, SaveFlag(r) PROVE Known'
  BY <1>21 DEF SaveFlag
<1>22. ASSUME NEW c \in Countries, DeleteCountry(c) PROVE Known'
  BY <1>22 DEF DeleteCountry, requestVars
<1>23. ASSUME NEW r \in Requests, Fails(r) PROVE Known'
  BY <1>23 DEF Fails
<1>24. CASE UNCHANGED vars
  BY <1>24 DEF vars, requestVars
<1> HIDE DEF TypeOK, Known, Savers, UserRow, Goto, rows, clientVars, outcome, history
<1> QED
  BY <1>1, <1>2, <1>3, <1>4, <1>5, <1>6, <1>7, <1>8, <1>9, <1>10, <1>11, <1>12, <1>13,
     <1>14, <1>15, <1>16, <1>17, <1>18, <1>19, <1>20, <1>21, <1>22, <1>23, <1>24
     DEF Next, Signs, Proves, Updates

\* Every step keeps fresh instances equal to the row, and the row to what was set.
LEMMA KeptStep == Inv /\ [Next]_vars => Kept'
<1> SUFFICES ASSUME TypeOK, Kept, [Next]_vars PROVE Kept'
  BY DEF Inv
<1> USE DEF TypeOK, Kept, Savers, UserRow, Goto, rows, clientVars, outcome, history
<1>1. ASSUME NEW r \in Requests, Refused(r) PROVE Kept'
  BY <1>1 DEF Refused
<1>2. ASSUME NEW r \in Requests, Register(r) PROVE Kept'
  BY <1>2 DEF Register
<1>3. ASSUME NEW r \in Requests, Insert(r) PROVE Kept'
  BY <1>3 DEF Insert
<1>4. ASSUME NEW r \in Requests, AddProfile(r) PROVE Kept'
  BY <1>4 DEF AddProfile
<1>5. ASSUME NEW r \in Requests, AskForLink(r) PROVE Kept'
  BY <1>5 DEF AskForLink, ReadUser
<1>6. ASSUME NEW r \in Requests, Mail(r) PROVE Kept'
  BY <1>6 DEF Mail
<1>7. ASSUME NEW r \in Requests, VerifyEmail(r) PROVE Kept'
  BY <1>7 DEF VerifyEmail, ReadUser
<1>8. ASSUME NEW r \in Requests, SaveVerified(r) PROVE Kept'
  BY <1>8 DEF SaveVerified, SaveUser
<1>9. ASSUME NEW r \in Requests, NEW l \in Requests, ResetPassword(r, l) PROVE Kept'
  BY <1>9 DEF ResetPassword, ReadUser
<1>10. ASSUME NEW r \in Requests, SaveReset(r) PROVE Kept'
  BY <1>10 DEF SaveReset, SaveUser
<1>11. CASE Login
  BY <1>11 DEF Login, requestVars
<1>12. ASSUME NEW r \in Requests, ChangePassword(r) PROVE Kept'
  BY <1>12 DEF ChangePassword, ReadUser
<1>13. ASSUME NEW r \in Requests, SaveChange(r) PROVE Kept'
  BY <1>13 DEF SaveChange, SaveUser
<1>14. ASSUME NEW r \in Requests, Authenticate(r) PROVE Kept'
  BY <1>14 DEF Authenticate, ReadUser
<1>15. ASSUME NEW r \in Requests, CheckProfile(r) PROVE Kept'
  BY <1>15 DEF CheckProfile
<1>16. ASSUME NEW r \in Requests, LoadProfile(r) PROVE Kept'
  BY <1>16 DEF LoadProfile
<1>17. ASSUME NEW r \in Requests, LoadUser(r) PROVE Kept'
  BY <1>17 DEF LoadUser, ReadUser
<1>18. ASSUME NEW r \in Requests, SaveNames(r) PROVE Kept'
  BY <1>18 DEF SaveNames, SaveUser
<1>19. ASSUME NEW r \in Requests, NoNames(r) PROVE Kept'
  BY <1>19 DEF NoNames
<1>20. ASSUME NEW r \in Requests, NEW c \in Countries \cup {NoOne}, NEW full \in BOOLEAN,
              SaveFields(r, c, full)
       PROVE  Kept'
  BY <1>20 DEF SaveFields
<1>21. ASSUME NEW r \in Requests, SaveFlag(r) PROVE Kept'
  BY <1>21 DEF SaveFlag
<1>22. ASSUME NEW c \in Countries, DeleteCountry(c) PROVE Kept'
  BY <1>22 DEF DeleteCountry, requestVars
<1>23. ASSUME NEW r \in Requests, Fails(r) PROVE Kept'
  BY <1>23 DEF Fails
<1>24. CASE UNCHANGED vars
  BY <1>24 DEF vars, requestVars
<1> HIDE DEF TypeOK, Kept, Savers, UserRow, Goto, rows, clientVars, outcome, history
<1> QED
  BY <1>1, <1>2, <1>3, <1>4, <1>5, <1>6, <1>7, <1>8, <1>9, <1>10, <1>11, <1>12, <1>13,
     <1>14, <1>15, <1>16, <1>17, <1>18, <1>19, <1>20, <1>21, <1>22, <1>23, <1>24
     DEF Next, Signs, Proves, Updates

\* Every step keeps verified instances where only the verified act.
LEMMA ProvenStep == Inv /\ [Next]_vars => Proven'
<1> SUFFICES ASSUME TypeOK, Known, Proven, [Next]_vars PROVE Proven'
  BY DEF Inv
<1> USE NoOneAssumption DEF TypeOK, Proven, UserRow, Goto, rows, clientVars, outcome, history
<1>1. ASSUME NEW r \in Requests, Refused(r) PROVE Proven'
  BY <1>1 DEF Refused
<1>2. ASSUME NEW r \in Requests, Register(r) PROVE Proven'
  BY <1>2 DEF Register
<1>3. ASSUME NEW r \in Requests, Insert(r) PROVE Proven'
  BY <1>3 DEF Insert, NoUser
<1>4. ASSUME NEW r \in Requests, AddProfile(r) PROVE Proven'
  BY <1>4 DEF AddProfile
<1>5. ASSUME NEW r \in Requests, AskForLink(r) PROVE Proven'
  BY <1>5 DEF AskForLink, ReadUser
<1>6. ASSUME NEW r \in Requests, Mail(r) PROVE Proven'
  BY <1>6 DEF Mail, NoUser
<1>7. ASSUME NEW r \in Requests, VerifyEmail(r) PROVE Proven'
  BY <1>7 DEF VerifyEmail, ReadUser
<1>8. ASSUME NEW r \in Requests, SaveVerified(r) PROVE Proven'
  BY <1>8 DEF SaveVerified, SaveUser, NoUser
<1>9. ASSUME NEW r \in Requests, NEW l \in Requests, ResetPassword(r, l) PROVE Proven'
  BY <1>9 DEF ResetPassword, ReadUser
<1>10. ASSUME NEW r \in Requests, SaveReset(r) PROVE Proven'
  BY <1>10 DEF SaveReset, SaveUser, NoUser
<1>11. CASE Login
  BY <1>11 DEF Login, requestVars
<1>12. ASSUME NEW r \in Requests, ChangePassword(r) PROVE Proven'
  BY <1>12 DEF ChangePassword, ReadUser, Admitted
<1>13. ASSUME NEW r \in Requests, SaveChange(r) PROVE Proven'
  BY <1>13 DEF SaveChange, SaveUser, NoUser
<1>14. ASSUME NEW r \in Requests, Authenticate(r) PROVE Proven'
  BY <1>14 DEF Authenticate, ReadUser, Admitted
<1>15. ASSUME NEW r \in Requests, CheckProfile(r) PROVE Proven'
  BY <1>15 DEF CheckProfile, NoUser
<1>16. ASSUME NEW r \in Requests, LoadProfile(r) PROVE Proven'
  BY <1>16 DEF LoadProfile
<1>17. ASSUME NEW r \in Requests, LoadUser(r) PROVE Proven'
  BY <1>17 DEF LoadUser, ReadUser
<1>18. ASSUME NEW r \in Requests, SaveNames(r) PROVE Proven'
  BY <1>18 DEF SaveNames, SaveUser, NoUser, Known, Savers
<1>19. ASSUME NEW r \in Requests, NoNames(r) PROVE Proven'
  BY <1>19 DEF NoNames, NoUser
<1>20. ASSUME NEW r \in Requests, NEW c \in Countries \cup {NoOne}, NEW full \in BOOLEAN,
              SaveFields(r, c, full)
       PROVE  Proven'
  BY <1>20 DEF SaveFields
<1>21. ASSUME NEW r \in Requests, SaveFlag(r) PROVE Proven'
  BY <1>21 DEF SaveFlag
<1>22. ASSUME NEW c \in Countries, DeleteCountry(c) PROVE Proven'
  BY <1>22 DEF DeleteCountry, requestVars
<1>23. ASSUME NEW r \in Requests, Fails(r) PROVE Proven'
  BY <1>23 DEF Fails, NoUser
<1>24. CASE UNCHANGED vars
  BY <1>24 DEF vars, requestVars
<1> HIDE DEF TypeOK, Proven, UserRow, Goto, rows, clientVars, outcome, history
<1> QED
  BY <1>1, <1>2, <1>3, <1>4, <1>5, <1>6, <1>7, <1>8, <1>9, <1>10, <1>11, <1>12, <1>13,
     <1>14, <1>15, <1>16, <1>17, <1>18, <1>19, <1>20, <1>21, <1>22, <1>23, <1>24
     DEF Next, Signs, Proves, Updates

\* Every step keeps the hashes that are yet to be set out of use.
LEMMA HashesStep == Inv /\ [Next]_vars => Hashes'
<1> SUFFICES ASSUME TypeOK, Known, Kept, Hashes, [Next]_vars PROVE Hashes'
  BY DEF Inv
<1> USE NoOneAssumption
    DEF TypeOK, Hashes, Unhashed, UserRow, Goto, rows, clientVars, outcome, history
<1>1. ASSUME NEW r \in Requests, Refused(r) PROVE Hashes'
  BY <1>1 DEF Refused
<1>2. ASSUME NEW r \in Requests, Register(r) PROVE Hashes'
  BY <1>2 DEF Register
<1>3. ASSUME NEW r \in Requests, Insert(r) PROVE Hashes'
  BY <1>3 DEF Insert
<1>4. ASSUME NEW r \in Requests, AddProfile(r) PROVE Hashes'
  BY <1>4 DEF AddProfile
<1>5. ASSUME NEW r \in Requests, AskForLink(r) PROVE Hashes'
  BY <1>5 DEF AskForLink, ReadUser
<1>6. ASSUME NEW r \in Requests, Mail(r) PROVE Hashes'
  BY <1>6 DEF Mail, NoUser
<1>7. ASSUME NEW r \in Requests, VerifyEmail(r) PROVE Hashes'
  BY <1>7 DEF VerifyEmail, ReadUser
<1>8. ASSUME NEW r \in Requests, SaveVerified(r) PROVE Hashes'
  <2>1. user'.pw = mine[r].pw
    BY <1>8 DEF SaveVerified, SaveUser
  <2>2. ~raced' => ~raced /\ mine[r] = user
    BY <1>8 DEF SaveVerified, SaveUser, Kept, Savers
  <2> QED
    BY <1>8, <2>1, <2>2 DEF SaveVerified, SaveUser, NoUser
<1>9. ASSUME NEW r \in Requests, NEW l \in Requests, ResetPassword(r, l) PROVE Hashes'
  BY <1>9 DEF ResetPassword, ReadUser, GoodLink
<1>10. ASSUME NEW r \in Requests, SaveReset(r) PROVE Hashes'
  BY <1>10 DEF SaveReset, SaveUser, NoUser, Kept, Savers, Known
<1>11. CASE Login
  BY <1>11 DEF Login, requestVars
<1>12. ASSUME NEW r \in Requests, ChangePassword(r) PROVE Hashes'
  BY <1>12 DEF ChangePassword, ReadUser
<1>13. ASSUME NEW r \in Requests, SaveChange(r) PROVE Hashes'
  BY <1>13 DEF SaveChange, SaveUser, NoUser, Kept, Savers
<1>14. ASSUME NEW r \in Requests, Authenticate(r) PROVE Hashes'
  BY <1>14 DEF Authenticate, ReadUser
<1>15. ASSUME NEW r \in Requests, CheckProfile(r) PROVE Hashes'
  BY <1>15 DEF CheckProfile, NoUser
<1>16. ASSUME NEW r \in Requests, LoadProfile(r) PROVE Hashes'
  BY <1>16 DEF LoadProfile
<1>17. ASSUME NEW r \in Requests, LoadUser(r) PROVE Hashes'
  BY <1>17 DEF LoadUser, ReadUser
<1>18. ASSUME NEW r \in Requests, SaveNames(r) PROVE Hashes'
  <2>1. user'.pw = mine[r].pw
    BY <1>18 DEF SaveNames, SaveUser
  <2>2. ~raced' => ~raced /\ mine[r] = user
    BY <1>18 DEF SaveNames, SaveUser, Kept, Savers
  <2> QED
    BY <1>18, <2>1, <2>2 DEF SaveNames, SaveUser, NoUser
<1>19. ASSUME NEW r \in Requests, NoNames(r) PROVE Hashes'
  BY <1>19 DEF NoNames, NoUser
<1>20. ASSUME NEW r \in Requests, NEW c \in Countries \cup {NoOne}, NEW full \in BOOLEAN,
              SaveFields(r, c, full)
       PROVE  Hashes'
  BY <1>20 DEF SaveFields
<1>21. ASSUME NEW r \in Requests, SaveFlag(r) PROVE Hashes'
  BY <1>21 DEF SaveFlag
<1>22. ASSUME NEW c \in Countries, DeleteCountry(c) PROVE Hashes'
  BY <1>22 DEF DeleteCountry, requestVars
<1>23. ASSUME NEW r \in Requests, Fails(r) PROVE Hashes'
  BY <1>23 DEF Fails, NoUser
<1>24. CASE UNCHANGED vars
  BY <1>24 DEF vars, requestVars
<1> HIDE DEF TypeOK, Hashes, Unhashed, UserRow, Goto, rows, clientVars, outcome, history
<1> QED
  BY <1>1, <1>2, <1>3, <1>4, <1>5, <1>6, <1>7, <1>8, <1>9, <1>10, <1>11, <1>12, <1>13,
     <1>14, <1>15, <1>16, <1>17, <1>18, <1>19, <1>20, <1>21, <1>22, <1>23, <1>24
     DEF Next, Signs, Proves, Updates

\* Every step keeps the flag right, or leaves an update between its two saves.
LEMMA FlagStep == Inv /\ [Next]_vars => Flagged'
<1> SUFFICES ASSUME TypeOK, Flagged, [Next]_vars, ~halfway' PROVE Flagged'
  BY DEF Inv, Flagged
<1> USE NoOneAssumption
    DEF TypeOK, Flagged, Outlived, Goto, Complete, rows, clientVars, outcome, history
<1>1. ASSUME NEW r \in Requests, Refused(r) PROVE Flagged'
  BY <1>1 DEF Refused
<1>2. ASSUME NEW r \in Requests, Register(r) PROVE Flagged'
  BY <1>2 DEF Register
<1>3. ASSUME NEW r \in Requests, Insert(r) PROVE Flagged'
  BY <1>3 DEF Insert
<1>4. ASSUME NEW r \in Requests, AddProfile(r) PROVE Flagged'
  BY <1>4 DEF AddProfile, Blank, NoProfile
<1>5. ASSUME NEW r \in Requests, AskForLink(r) PROVE Flagged'
  BY <1>5 DEF AskForLink, ReadUser
<1>6. ASSUME NEW r \in Requests, Mail(r) PROVE Flagged'
  BY <1>6 DEF Mail
<1>7. ASSUME NEW r \in Requests, VerifyEmail(r) PROVE Flagged'
  BY <1>7 DEF VerifyEmail, ReadUser
<1>8. ASSUME NEW r \in Requests, SaveVerified(r) PROVE Flagged'
  BY <1>8 DEF SaveVerified, SaveUser
<1>9. ASSUME NEW r \in Requests, NEW l \in Requests, ResetPassword(r, l) PROVE Flagged'
  BY <1>9 DEF ResetPassword, ReadUser
<1>10. ASSUME NEW r \in Requests, SaveReset(r) PROVE Flagged'
  BY <1>10 DEF SaveReset, SaveUser
<1>11. CASE Login
  BY <1>11 DEF Login, requestVars
<1>12. ASSUME NEW r \in Requests, ChangePassword(r) PROVE Flagged'
  BY <1>12 DEF ChangePassword, ReadUser
<1>13. ASSUME NEW r \in Requests, SaveChange(r) PROVE Flagged'
  BY <1>13 DEF SaveChange, SaveUser
<1>14. ASSUME NEW r \in Requests, Authenticate(r) PROVE Flagged'
  BY <1>14 DEF Authenticate, ReadUser
<1>15. ASSUME NEW r \in Requests, CheckProfile(r) PROVE Flagged'
  BY <1>15 DEF CheckProfile, Blank, NoProfile
<1>16. ASSUME NEW r \in Requests, LoadProfile(r) PROVE Flagged'
  BY <1>16 DEF LoadProfile, Blank, NoProfile
<1>17. ASSUME NEW r \in Requests, LoadUser(r) PROVE Flagged'
  BY <1>17 DEF LoadUser, ReadUser
<1>18. ASSUME NEW r \in Requests, SaveNames(r) PROVE Flagged'
  BY <1>18 DEF SaveNames, SaveUser
<1>19. ASSUME NEW r \in Requests, NoNames(r) PROVE Flagged'
  BY <1>19 DEF NoNames
<1>20. ASSUME NEW r \in Requests, NEW c \in Countries \cup {NoOne}, NEW full \in BOOLEAN,
              SaveFields(r, c, full)
       PROVE  Flagged'
  BY <1>20 DEF SaveFields, Dangles, ProfileRow
<1>21. ASSUME NEW r \in Requests, SaveFlag(r) PROVE Flagged'
  BY <1>21 DEF SaveFlag, Dangles, ProfileRow
<1>22. ASSUME NEW c \in Countries, DeleteCountry(c) PROVE Flagged'
  BY <1>22 DEF DeleteCountry, requestVars, ProfileRow
<1>23. ASSUME NEW r \in Requests, Fails(r) PROVE Flagged'
  BY <1>23, FaultsAssumption DEF Fails
<1>24. CASE UNCHANGED vars
  BY <1>24 DEF vars, requestVars
<1> HIDE DEF TypeOK, Flagged, Outlived, Goto, Complete, rows, clientVars, outcome, history
<1> QED
  BY <1>1, <1>2, <1>3, <1>4, <1>5, <1>6, <1>7, <1>8, <1>9, <1>10, <1>11, <1>12, <1>13,
     <1>14, <1>15, <1>16, <1>17, <1>18, <1>19, <1>20, <1>21, <1>22, <1>23, <1>24
     DEF Next, Signs, Proves, Updates

LEMMA Invariance == Spec => []Inv
<1>1. Inv /\ [Next]_vars => Inv'
  BY TypeStep, KnownStep, KeptStep, ProvenStep, HashesStep, FlagStep DEF Inv
<1> QED
  BY InitInv, <1>1, PTL DEF Spec

-----------------------------------------------------------------------------
(* The theorems                                                            *)

\* Every variable has its type, and the country of the profile exists.
THEOREM TypeCorrect == Spec => []TypeOK
<1>1. Inv => TypeOK
  BY DEF Inv
<1> QED
  BY Invariance, <1>1, PTL

\* As long as no request saves over another, the row is what was last set.
THEOREM SavesKept == Spec => []SavesAreKept
<1>1. Inv => SavesAreKept
  BY DEF Inv, Kept, SavesAreKept
<1> QED
  BY Invariance, <1>1, PTL

\* Whatever races, only a reset that overtook the verification undoes it.
THEOREM VerificationKept == Spec => []VerificationIsKept
<1>1. Inv => VerificationIsKept
  BY DEF Inv, Proven, VerificationIsKept
<1> QED
  BY Invariance, <1>1, PTL

\* As long as no request saves over another, a link sets one password.
THEOREM LinksSetOnePassword == Spec => []LinkSetsOnePassword
<1>1. Inv => LinkSetsOnePassword
  BY DEF Inv, Hashes, LinkSetsOnePassword
<1> QED
  BY Invariance, <1>1, PTL

\* Whatever races, the flag is right when no update is between its two saves or
\* ended there last, or it is set although the country was deleted.
THEOREM FlagCorrect == Spec => []FlagIsRight
<1>1. Inv => FlagIsRight
  BY DEF Inv, Flagged, FlagIsRight
<1> QED
  BY Invariance, <1>1, PTL
=============================================================================
