------------------------------ MODULE Accounts ------------------------------
(***************************************************************************)
(* One account: its AppUser row, its Profile row and the links mailed to   *)
(* its address, under the requests of users/views/auth_views.py and        *)
(* UpdateProfileView, CheckProfileCompleteView (users/views/app_views.py). *)
(*                                                                         *)
(* No request runs in a transaction: every query is a step.  A save writes *)
(* every column of the instance the request read, changed or not.          *)
(*                                                                         *)
(* A password is salted, so that no two hashes are equal: a hash is named   *)
(* after the request that set it.  default_token_generator makes a token   *)
(* of the hash, and the token is good while the row has that hash; a link   *)
(* is named after the hash too.  Verification and reset share the links.   *)
(***************************************************************************)
EXTENDS Integers, FiniteSets

CONSTANTS Requests,   \* bound: the requests about the account
          Countries,
          NoOne,      \* no request, no country
          MaxFaults   \* bound: requests that fail halfway

ASSUME NoOneAssumption  == NoOne \notin Requests \cup Countries
ASSUME FaultsAssumption == MaxFaults \in Nat

VARIABLES
  user,       \* the AppUser row; organisation goes with names
  profile,    \* the Profile row; rest: aboutme, age and gender are filled in
  countries,  \* rows of Country
  links,      \* tokens mailed so far
  session,    \* the client holds a JWT
  pc,         \* the next query of a request
  mine,       \* the AppUser instance of a request
  own,        \* its Profile instance
  link,       \* the token it presents
  faults,
  fresh,      \* history: requests that read the row after its last save, or loaded
              \* the profile after it through which they are to read the row
  raced,      \* history: a request that was not among them saved the row
  latest,     \* history: what the last request to set each column set
  undone,     \* history: a reset wrote a row it had read before the verification
  spent,      \* history: links that have set a password
  twice,      \* history: a link has set two
  halfway     \* history: an update ended between its two saves, and no update
              \* has made its second save since

rows        == <<user, profile, countries>>
clientVars  == <<links, session>>
requestVars == <<pc, mine, own, link>>
outcome     == <<raced, latest, undone, spent, twice, halfway>>
history     == <<fresh, outcome>>
vars == <<rows, clientVars, requestVars, faults, history>>

NoUser    == [pw |-> NoOne, verified |-> FALSE, names |-> NoOne]
NoProfile == [exists |-> FALSE, country |-> NoOne, rest |-> FALSE, flag |-> FALSE]
Blank     == [NoProfile EXCEPT !.exists = TRUE]

\* The required fields; the names are never empty.
Complete(p) == p.country # NoOne /\ p.rest

Init == /\ user = NoUser /\ profile = NoProfile /\ countries = Countries
        /\ links = {} /\ session = FALSE
        /\ pc = [r \in Requests |-> "new"]
        /\ mine = [r \in Requests |-> NoUser]
        /\ own = [r \in Requests |-> NoProfile]
        /\ link = [r \in Requests |-> NoOne]
        /\ faults = 0
        /\ fresh = {} /\ raced = FALSE /\ latest = NoUser /\ undone = FALSE
        /\ spent = {} /\ twice = FALSE /\ halfway = FALSE

Goto(r, from, to) == pc[r] = from /\ pc' = [pc EXCEPT ![r] = to]

ReadUser(r) == /\ mine' = [mine EXCEPT ![r] = user]
               /\ fresh' = fresh \cup {r}

\* user.save() of the instance, changed to row.
SaveUser(r, row) == /\ user' = row
                    /\ mine' = [mine EXCEPT ![r] = NoUser]
                    /\ raced' = (raced \/ r \notin fresh)
                    /\ fresh' = {}

-----------------------------------------------------------------------------
(* Registration and the mails                                              *)

\* Invalid input, an unknown or verified address, a dead link, a wrong password,
\* no or an unverified session, too many requests: nothing changes.
Refused(r) == /\ pc[r] \in {"new", "insert"}
              /\ pc' = [pc EXCEPT ![r] = "done"]
              /\ UNCHANGED <<rows, clientVars, mine, own, link, faults, history>>

\* Register.post for an address without an account.
Register(r) == /\ Goto(r, "new", "insert")
               /\ user = NoUser
               /\ UNCHANGED <<rows, clientVars, mine, own, link, faults, history>>

\* Mutant: update_or_create instead of create.
Insert_Overwrites(r) ==
  LET row == [pw |-> r, verified |-> FALSE, names |-> r] IN
  /\ Goto(r, "insert", "addprofile")
  /\ user' = row
  /\ mine' = [mine EXCEPT ![r] = row]
  /\ latest' = [row EXCEPT !.verified = latest.verified]
  /\ fresh' = {}
  /\ UNCHANGED <<profile, countries, clientVars, own, link, faults, raced, undone, spent, twice, halfway>>

\* create_user; the address is unique, so that a second one is refused.
Insert(r) ==
  LET row == [pw |-> r, verified |-> FALSE, names |-> r] IN
  /\ user = NoUser
  /\ Goto(r, "insert", "addprofile")
  /\ user' = row
  /\ mine' = [mine EXCEPT ![r] = row]
  /\ latest' = row
  /\ fresh' = {}
  /\ UNCHANGED <<profile, countries, clientVars, own, link, faults, raced, undone, spent, twice, halfway>>

\* Profile.objects.create, unless another request made the profile meanwhile:
\* then the registration ends in an error, without a mail.
AddProfile(r) == /\ Goto(r, "addprofile", IF profile.exists THEN "done" ELSE "mail")
                 /\ profile' = IF profile.exists THEN profile ELSE Blank
                 /\ UNCHANGED <<user, countries, clientVars, mine, own, link, faults, history>>

\* Register.post for an address that is not verified, ResendVerificationView, and
\* SendPasswordResetView, which does not ask for a verification.
AskForLink(r) == /\ Goto(r, "new", "mail")
                 /\ user # NoUser
                 /\ ReadUser(r)
                 /\ UNCHANGED <<rows, clientVars, own, link, faults, outcome>>

\* make_token and send_mail, for the row as it was read.
Mail(r) == /\ Goto(r, "mail", "done")
           /\ links' = links \cup {mine[r].pw}
           /\ mine' = [mine EXCEPT ![r] = NoUser]
           /\ UNCHANGED <<rows, session, own, link, faults, history>>

-----------------------------------------------------------------------------
(* Verification, passwords, sessions                                       *)

\* check_token.
GoodLink(l) == l \in links /\ l = user.pw

\* VerifyEmailView; for a verified account nothing is saved.
VerifyEmail(r) == /\ Goto(r, "new", "verify")
                  /\ GoodLink(user.pw) /\ ~user.verified
                  /\ ReadUser(r)
                  /\ UNCHANGED <<rows, clientVars, own, link, faults, outcome>>

SaveVerified(r) == /\ Goto(r, "verify", "done")
                   /\ SaveUser(r, [mine[r] EXCEPT !.verified = TRUE])
                   /\ latest' = [latest EXCEPT !.verified = TRUE]
                   /\ UNCHANGED <<profile, countries, clientVars, own, link, faults, undone, spent, twice, halfway>>

\* Mutant: the token is checked when the link is followed, and not again when
\* the new password is sent.
ResetPassword_Unchecked(r, l) ==
  /\ Goto(r, "new", "reset")
  /\ l \in links
  /\ link' = [link EXCEPT ![r] = l]
  /\ ReadUser(r)
  /\ UNCHANGED <<rows, clientVars, own, faults, outcome>>

\* ResetPasswordView.post.
ResetPassword(r, l) == /\ Goto(r, "new", "reset")
                       /\ GoodLink(l)
                       /\ link' = [link EXCEPT ![r] = l]
                       /\ ReadUser(r)
                       /\ UNCHANGED <<rows, clientVars, own, faults, outcome>>

SaveReset(r) == /\ Goto(r, "reset", "done")
                /\ SaveUser(r, [mine[r] EXCEPT !.pw = r])
                /\ latest' = [latest EXCEPT !.pw = r]
                /\ undone' = (undone \/ (user.verified /\ ~mine[r].verified))
                /\ twice' = (twice \/ link[r] \in spent)
                /\ spent' = spent \cup {link[r]}
                /\ link' = [link EXCEPT ![r] = NoOne]
                /\ UNCHANGED <<profile, countries, clientVars, own, faults, halfway>>

\* VerifiedTokenObtainPairSerializer: no token without a verified address.
Login == /\ user.verified
         /\ session' = TRUE
         /\ UNCHANGED <<rows, links, requestVars, faults, history>>

\* JWTAuthentication and IsVerified.
Admitted == session /\ user.verified

\* ChangePasswordAuthenticatedView: request.user is read before the old password
\* is checked and the new one hashed.
ChangePassword(r) == /\ Goto(r, "new", "change")
                     /\ Admitted
                     /\ ReadUser(r)
                     /\ UNCHANGED <<rows, clientVars, own, link, faults, outcome>>

SaveChange(r) == /\ Goto(r, "change", "done")
                 /\ SaveUser(r, [mine[r] EXCEPT !.pw = r])
                 /\ latest' = [latest EXCEPT !.pw = r]
                 /\ UNCHANGED <<profile, countries, clientVars, own, link, faults, undone, spent, twice, halfway>>

-----------------------------------------------------------------------------
(* The profile                                                             *)

\* request.user of UpdateProfileView and CheckProfileCompleteView.
Authenticate(r) == /\ Goto(r, "new", "profile")
                   /\ Admitted
                   /\ ReadUser(r)
                   /\ UNCHANGED <<rows, clientVars, own, link, faults, outcome>>

\* get_or_create of the profile, for an answer only.
CheckProfile(r) == /\ Goto(r, "profile", "done")
                   /\ profile' = IF profile.exists THEN profile ELSE Blank
                   /\ mine' = [mine EXCEPT ![r] = NoUser]
                   /\ UNCHANGED <<user, countries, clientVars, own, link, faults, history>>

\* get_object of UpdateProfileView.  A profile that had to be made has
\* request.user for its appuser, another one is yet to load it.
LoadProfile(r) == /\ Goto(r, "profile", IF profile.exists THEN "appuser" ELSE "names")
                  /\ profile' = IF profile.exists THEN profile ELSE Blank
                  /\ own' = [own EXCEPT ![r] = profile']
                  /\ fresh' = IF profile.exists THEN fresh \cup {r} ELSE fresh
                  /\ UNCHANGED <<user, countries, clientVars, mine, link, faults, outcome>>

\* Mutant: the profile is reached through request.user, whose row it keeps.
LoadUser_Cached(r) == /\ Goto(r, "appuser", "names")
                      /\ UNCHANGED <<rows, clientVars, mine, own, link, faults, history>>

\* instance.appuser, loaded when update first needs it.
LoadUser(r) == /\ Goto(r, "appuser", "names")
               /\ ReadUser(r)
               /\ UNCHANGED <<rows, clientVars, own, link, faults, outcome>>

\* instance.appuser.save().
SaveNames(r) == /\ Goto(r, "names", "fields")
                /\ SaveUser(r, [mine[r] EXCEPT !.names = r])
                /\ latest' = [latest EXCEPT !.names = r]
                /\ UNCHANGED <<profile, countries, clientVars, own, link, faults, undone, spent, twice, halfway>>

\* A PATCH without names and organisation.
NoNames(r) == /\ pc[r] \in {"appuser", "names"}
              /\ pc' = [pc EXCEPT ![r] = "fields"]
              /\ mine' = [mine EXCEPT ![r] = NoUser]
              /\ UNCHANGED <<rows, clientVars, own, link, faults, history>>

\* A country that was deleted since it was validated or read.
Dangles(p) == p.country \notin countries \cup {NoOne}

\* super().update(): the fields of the request, and an instance.save().
SaveFields(r, c, full) ==
  LET p == [own[r] EXCEPT !.country = c, !.rest = full] IN
  /\ Goto(r, "fields", IF Dangles(p) THEN "done" ELSE "flag")
  /\ profile' = IF Dangles(p) THEN profile ELSE p
  /\ own' = [own EXCEPT ![r] = IF Dangles(p) THEN NoProfile ELSE p]
  /\ UNCHANGED <<user, countries, clientVars, mine, link, faults, history>>

\* Mutant: the second save writes the flag and nothing else.
SaveFlag_Only(r) ==
  LET p == [own[r] EXCEPT !.flag = Complete(own[r])] IN
  /\ Goto(r, "flag", "done")
  /\ profile' = IF Dangles(p) THEN profile ELSE [profile EXCEPT !.flag = p.flag]
  /\ own' = [own EXCEPT ![r] = NoProfile]
  /\ halfway' = Dangles(p)
  /\ UNCHANGED <<user, countries, clientVars, mine, link, faults, fresh, raced, latest,
                 undone, spent, twice>>

\* fields_ok and profile.save().
SaveFlag(r) ==
  LET p == [own[r] EXCEPT !.flag = Complete(own[r])] IN
  /\ Goto(r, "flag", "done")
  /\ profile' = IF Dangles(p) THEN profile ELSE p
  /\ own' = [own EXCEPT ![r] = NoProfile]
  /\ halfway' = Dangles(p)
  /\ UNCHANGED <<user, countries, clientVars, mine, link, faults, fresh, raced, latest,
                 undone, spent, twice>>

\* Mutant: the foreign key is left to dangle.
DeleteCountry_Dangles(c) == /\ c \in countries
                            /\ countries' = countries \ {c}
                            /\ UNCHANGED <<user, profile, clientVars, requestVars, faults, history>>

\* The admin site deletes a country: on_delete=SET_NULL.
DeleteCountry(c) == /\ c \in countries
                    /\ countries' = countries \ {c}
                    /\ profile' = IF profile.country = c
                                    THEN [profile EXCEPT !.country = NoOne] ELSE profile
                    /\ UNCHANGED <<user, clientVars, requestVars, faults, history>>

-----------------------------------------------------------------------------
\* The mail server refuses, a query fails or the process dies: what is saved stays.
Fails(r) == /\ faults < MaxFaults
            /\ faults' = faults + 1
            /\ pc[r] \notin {"new", "done"}
            /\ pc' = [pc EXCEPT ![r] = "done"]
            /\ mine' = [mine EXCEPT ![r] = NoUser]
            /\ own' = [own EXCEPT ![r] = NoProfile]
            /\ link' = [link EXCEPT ![r] = NoOne]
            /\ halfway' = (halfway \/ pc[r] = "flag")
            /\ UNCHANGED <<rows, clientVars, fresh, raced, latest, undone, spent, twice>>

Signs(r)   == Register(r) \/ Insert(r) \/ AddProfile(r) \/ AskForLink(r) \/ Mail(r)
Proves(r)  == \/ VerifyEmail(r) \/ SaveVerified(r)
              \/ \E l \in Requests : ResetPassword(r, l)
              \/ SaveReset(r) \/ ChangePassword(r) \/ SaveChange(r)
Updates(r) == \/ Authenticate(r) \/ CheckProfile(r) \/ LoadProfile(r) \/ LoadUser(r)
              \/ SaveNames(r) \/ NoNames(r)
              \/ \E c \in Countries \cup {NoOne}, full \in BOOLEAN : SaveFields(r, c, full)
              \/ SaveFlag(r)

Next == \/ \E r \in Requests : Signs(r) \/ Proves(r) \/ Updates(r) \/ Refused(r) \/ Fails(r)
        \/ Login
        \/ \E c \in Countries : DeleteCountry(c)

Spec == Init /\ [][Next]_vars

-----------------------------------------------------------------------------
(* Properties                                                              *)

Labels == {"new", "insert", "addprofile", "mail", "verify", "reset", "change", "profile",
           "appuser", "names", "fields", "flag", "done"}

UserRow    == [pw : Requests \cup {NoOne}, verified : BOOLEAN, names : Requests \cup {NoOne}]
ProfileRow == [exists : BOOLEAN, country : Countries \cup {NoOne}, rest : BOOLEAN,
               flag : BOOLEAN]

\* Every variable has its type, and the country of the profile exists.
TypeOK == /\ user \in UserRow
          /\ profile \in ProfileRow /\ ~Dangles(profile)
          /\ countries \subseteq Countries
          /\ links \subseteq Requests
          /\ session \in BOOLEAN
          /\ pc \in [Requests -> Labels]
          /\ mine \in [Requests -> UserRow]
          /\ own \in [Requests -> ProfileRow]
          /\ link \in [Requests -> Requests \cup {NoOne}]
          /\ faults \in 0..MaxFaults
          /\ fresh \subseteq Requests
          /\ raced \in BOOLEAN /\ undone \in BOOLEAN /\ twice \in BOOLEAN
          /\ halfway \in BOOLEAN
          /\ latest \in UserRow
          /\ spent \subseteq Requests

\* Whatever is verified, set or renamed stays until it is set anew, as long as no
\* request saves a row that another one has saved since it was read.  For an update
\* of the names the saves that count are those since it loaded the profile: before
\* that it has request.user in hand, which is older, and does not save it.
SavesAreKept == ~raced => user = latest

\* Even when such requests race, a verified address stays verified, unless a reset
\* that began before the verification is the one that ends last.
VerificationIsKept == latest.verified /\ ~undone => user.verified

\* A link sets one password, as long as no request overwrites a newer row: the
\* new hash is what makes the link a dead one.
LinkSetsOnePassword == ~raced => ~twice

\* A flag that is set, and was complete, although the country is gone: no code
\* follows up the deletion.
Outlived(p) == p.flag /\ p.rest /\ p.country = NoOne /\ countries # Countries

\* However updates of the profile interleave, and whatever failed before, the flag is
\* right when none is between its two saves, for each of them writes the whole row it
\* computed.  Only an update that ended there makes it wrong, until the next one is
\* through, and the deletion of a country, which leaves it set.
FlagIsRight ==
  ~halfway /\ (\A r \in Requests : pc[r] # "flag")
  => profile.flag = Complete(profile) \/ Outlived(profile)
=============================================================================
