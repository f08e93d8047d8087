# A verification project for blended_learning

The repository is the server of a blended-learning site: a Django 1.4 project whose own
code is in `blended_learning/`, `student/`, `social_oauth/`, `provider/` (an adapted
django-oauth2-provider), `course_meta/`, `cards/`, `weixin/`, `track/` and `util/` (the last
two adapted from edx-platform), with two vendored libraries, `python-social-auth/` and
`django-social-auth/`. What the browser runs lives in `course_meta/static/js/`: the site's own
pages (`src/`), the libraries they are built from (`libs/`: framework7, require.js, Backbone,
iScroll, a modified Swiper) and jQuery plug-ins (`plugins/`: Bootstrap, its date picker, file
upload). This directory holds TLA+ modules of both sides, the TLC configurations that check
them and theorems that TLAPS checks. Paths below are relative to the repository (`src/` in
`PROJECT.json`).

The first part is the inventory of the system, the second the plan, the third what each
module models, the fourth what the runs check, the fifth what is proved, the last what is
open.

## 1. Inventory

### The server

One fact about the whole server decides how it is modelled. `TransactionMiddleware` is not
installed, and Django 1.4 commits after every write of the ORM. A handler that reads a row,
decides, and saves it is therefore several transactions, and `save()` writes *all* columns of
the row as they were read. Web workers run such handlers concurrently. The only handler in a
transaction of its own is `_get_or_create_oauth_user` (`commit_on_success`). MySQL's default
isolation level, REPEATABLE READ, adds snapshots: after its first `SELECT` a request goes on
seeing what was there, until it commits (`util/tests/test_db.py` is about exactly this).

| component | state | operations | what is hard | correct when |
|---|---|---|---|---|
| SMS verification codes (`social_oauth/models.py`, `sms.py`, `student/api/v2/phone.py`) | tables SMSValidate, SMSValidateCheckFailures; captcha in the session | send, check (web), send, confirm (API), `check_validate_used`, clock | full-row saves of stale rows; check-then-act; time windows; colliding codes | operations rest on a recent proof of the code; judged codes stay judged; limits hold |
| Social accounts (`social_oauth/views.py`, `utils.py`, `student/api/v2/oauth.py`, the pipelines of python-social-auth) | table UserSocialAuth, users, passwords, phones | login/registration, bind, unbind, disconnect, bind a phone | isolation levels, lost insertions, crash in registration, re-inserted rows, last login lost | an account leads to one user, of the same person; nobody loses his last login (while requests do not overlap) |
| OAuth2 provider (`provider/`, `student/api/authentication.py`) | tables Grant, AccessToken, RefreshToken; session of the authorization page | authorize, redeem a code, log in, refresh, authenticate | double redemption, refresh races, breaking off between two saves, session replaced by another tab | tokens stay within the grant; used codes and refreshed tokens stay dead |
| Users, phones, passwords (`student/api/v2/user.py`, `student/models.py`, `v1/register.py`) | users, profiles | register, reset, bind a phone, change e-mail | two saves for one change, stale rows | a phone belongs to one user; a refused change is absent |
| Social login over HTTP (`social_oauth/middleware.py`, strategies of python-social-auth) | session keys between redirect and return | begin, complete, exceptions to pages | two logins in one browser, replayed return | a return is matched with its own beginning |
| Event tracking (`track/`) | stack of contexts, backends | enter/exit context, emit, middleware | exceptions, failing backends, unacknowledged writes | contexts are balanced; a backend's failure stays its own |
| Caches and weixin credentials (`util/cache.py`, `memcache.py`, `weixin.py`, `student/api/utils.py`) | memcached entries with time-outs | fetch, recompute, expire | stale entries, concurrent recomputation, a token that invalidates the last | what is answered is younger than the time-out and valid at its origin |
| Enrolment, course status (`v1/enrollment.py`, `v2/course.py`) | enrolments, seats | enrol, follow, withdraw | seats checked, then taken | no more students than seats |
| Uploaded logs, devices (`v1/log.py`, `v2/logs.py`, `v2/device.py`) | files, device rows | append, rename, save | appends racing with renames, `exists` then `mkdir`, get-or-create then save | nothing written and answered is lost to a rename |
| Course metadata, cards, classrooms | tables written by the admin site | read, serialise | - | - |
| Helpers (`util/`) | - | dates, ids, files, password policy | boundaries | agree with a reference definition |
| Other vendored code | - | - | - | - |

Interaction: the API for phones and the registration of users (`UserView`, `UserPhoneView`)
call `check_validate_used` of the SMS codes; the grant `social_oauth` of the token endpoint calls
the social login, then creates tokens; web logins call the same function through the pipeline;
every API call is admitted by an access token. All of them meet in the database alone: there
are no queues, threads or callbacks of the project's own.

### The browser

One fact decides here too. A page runs on one thread, and a handler runs to its end; what
interleaves is what comes from outside: answers of the server, ends of CSS transitions and
animations, timeouts, and the user, whose fingers and keys come at any time, between any two of
them. Each widget keeps flags that say what it waits for (`allowPageChange`, `isTouched`,
`animating`, `hoverState`, ...) and the code of one event decides what the code of another will
find. Tests of such code run one gesture at a time, to its end.

| component | state | operations | what is hard | correct when |
|---|---|---|---|---|
| Teachers' page (`teacher.js`, `teacher_router.js`; views, router, Ajax of framework7) | pages and navbars in the document, view.url, history, the lock allowPageChange, cache, requests, indicator | load, go back, swipe back, preprocess, post | answers and animations that end while a finger holds a page; failures that call no callback | what is seen, the address and the history agree; the lock is given back |
| What opens over the page (framework7 modals, panels, photo browser, notifications) | classes, marks, shared overlays, stack of dialogs, listeners waiting for transitions | open, close, drag, dismiss | listeners of an earlier transition, shared overlays, closing twice | no overlay is left without something open; everything closes, but for what section 6 names |
| What a page contains (framework7 calendar, picker, rows, pull to refresh, fast clicks, search bar, smart select, virtual list) | positions, caches by index, touched flags, timeouts | touch, move, lift, click, open, filter, insert | several fingers, momentum, late timeouts, indexes after changes | it rests where it should, indexes agree, one tap is one click |
| Module loader (require.js) | registry, requests in flight, timer | require, define, load, fail, time out | any order of scripts, cycles, late scripts | callbacks after their dependencies, and in the end |
| Backbone | collections indexed by id and cid; history and routes | add, remove, set, reset, create, save, fetch, destroy; navigate, route | answers out of order; routes that navigate | index and list agree; the route that ran last is that of the address |
| Sliders and scrollers (Swiper, iScroll) | position, index or page, flags of gesture and transition, timers | touch, glide, turn, resize, autoplay | a finger that catches what glides; loops; two animations | it comes to rest at a slide, a page, inside, but for what section 6 names |
| Bootstrap, date picker | modals, backdrops, body padding; tooltips; items; panels; dates and field | show, hide, slide, toggle, pick, type | told to close while opening; the page's own calls | nothing is left behind; the field shows what is chosen |
| File uploads | slots, queue, counters of progress | submit, send, answer, fail, abort | limits and order of concurrent uploads | as many are sent as allowed; none waits for ever |
| Other scripts | - | - | - | - |

`PROJECT.json` lists the components with their state of modelling, and, line by line, the
hazards: what can go wrong there that a test would hardly reach, and the property that
would see it.

## 2. Plan

The order followed what each part protects:

1. `SmsValidate`: proof of a phone is what registration, reset and binding rest on.
2. `AccountRegistry` (abstract) and `SocialAccounts`, which implements it.
3. `OAuthTokens`.
4. `Users` and `Logs`, which meet the first two in what they read and are checked beside them.
5. The teachers' page, the one application of the repository's own in the browser
   (`TeacherApp`), then the parts of framework7 that share a screen with it, then the
   libraries and plug-ins that the other pages load.

The same order was followed in proving. Every safety property of the server's runs and of the teachers' page
is a theorem, as are those of the router, uploads, modals and carousel; section 5 says what is not. Runs stay few:
components that share no state are checked side by side in one run, one of them taking all the steps of a behaviour.

## 3. The modules

Every state-based module is parameterised by CONSTANTS whose assumptions are named in it, and
has one action per committed write with the reads before it. An `MC...` module puts components
together and has the definitions its `.cfg` files need; it declares the constants of its components again, to which the
`.cfg` gives values, so that what is proved about it holds for every value. Definitions marked `mutant` in comments are not part of
`Next`: each is a plausible bug that breaks one of the properties, and serves to show that
the property can fail.

### SmsValidate

| code | module |
|---|---|
| SMSValidate rows (unique `validate`), SMSValidateCheckFailures rows | `row`, `failures` |
| `request.session['sms_verify']` | `session`: nothing, the answer of a captcha, or the '!' that a refusal leaves there and that the next request may post |
| local variables of a handler between two ORM calls | `req[p]` |
| `send_sms_validate`, `SMSValidate.new`, `is_too_frequently`, `is_phone_locked_out` | `SendRefused`, `SendAdmitted` and the steps after it, to `Insert` |
| `increment_lockout_counter`, `clear_lockout_counter` | a read and a save (`incrementGet`, `incrementSave`; `clearGet`, `clearDelete`) |
| `check_sms_validate`, `SMSValidate.check` | list, expire the older rows, judge (`Verdict`), save |
| `SMSValidateView` | send by authtoken |
| `SMSValidateConfirmView.post` | `Confirm` (the clock), `ConfirmList`, `ConfirmSave` |
| `check_validate_used` | `Grant` (`exists()`), `GrantClock` (`now()`), `GrantList` (the row again) |

`proof` and `free` are history variables: when a code was last presented for a phone and when that was
saved, and how many messages went through without being asked for a captcha since the counter was cleared. A primary key is not
kept: a `Fresh` id distinguishes a counter row from one inserted after it was deleted, for
Django's `save()` re-inserts a deleted row. Counters stop at `MaxCount` (at least
`MAX_FAILED`, beyond which they are only compared), the clock at `MaxTime`. The text of a
message and the answer of the sending service are abstracted to success or failure.

### AccountRegistry, SocialAccounts

`AccountRegistry` is what the tables promise to the rest: an account leads to at most one
user at a time, it never passes from a user to another without being unbound, users stay the
same human's. `SocialAccounts` is the code:

| code | module |
|---|---|
| UserSocialAuth, its AUTO_INCREMENT key | `rows`, `last` |
| `User.password` other than '!', `UserProfile.phone_number` | `usable`, `contact` |
| the snapshot of a request's transaction | `req[p].view` (kept when `RepeatableRead`) |
| a unique key inserted by a transaction that has not committed | `Locked` |
| `authentication_success`, `_get_or_create_oauth_user`, `new_associate_user` | `Login`, `LoginCreate`, `LoginAssociate`, `LoginCommit`, then `SaveUser` (Django's `login()` saves the whole user row) and `LoginAnswer` |
| `_new_association`, `OAuthBindView`, `associate_user`, `social_user` | `Bind`, `BindInsert`, `BindSave` |
| `_unbind_social`, `check_can_unbind_social_account`, `OAuthUnBindView` | `Unbind`, `Delete` |
| the disconnect pipeline | `Disconnect`, `Entries`, `DisconnectEntry`, `Disconnected` |
| `UserPhoneView.post` | `BindPhone`, `SaveProfile`, `SaveUser` |

`LoginCreate` to `LoginCommit` are one transaction: others see its user only after
`LoginCommit`, and an insertion of the same account waits meanwhile. `Crash` stands for a
worker that dies and for a handler that raises; it drops a transaction and leaves everything
else as it was saved. `BindSave` is an UPDATE if the row is still there and an INSERT of
the same primary key if it was deleted, as `save()` is. `human` is history. `created_on`
is kept as far as `startswith('web')` tells. The provider `chinamobile` is left out.

### OAuthTokens

| code | module |
|---|---|
| Grant, AccessToken, RefreshToken (one-to-one with its access token) | `grants`, `tokens`, `refresh` |
| `Authorize.save_authorization` | `Authorize` |
| `AuthorizationCodeGrantForm`, `authorization_code` | `AuthorizationCode`, then the steps below |
| `password`, `social_oauth`, once they know the user | `Login` |
| `RefreshTokenGrantForm`, `refresh_token` | `Refresh`, then `ExpireRefresh`, `ExpireAccess`, ... |
| `get_access_token` (SINGLE_ACCESS_TOKEN) | `GetAccessToken` |
| `create_access_token`, `create_refresh_token`, `invalidate_grant`, `access_token_response` | `CreateAccessToken`, `CreateRefreshToken`, `InvalidateGrant`, `Answer` |
| `expires` compared with `now()` | `live`, taken away by `CodeLapses`, `TokenLapses` at any time |

A scope is its set of bits; READ is always among them (`clean_scope` adds to the first of
`SCOPES` whatever is asked for), which makes `check` the subset relation. Clients present refresh tokens that they were answered with, and codes that
exist. `given`, `origin` and `parent` are history: what was answered to which code, which
code a token descends from, which token it replaced. `Crash` may end any request between
two saves; `Answer` also covers the token that has no refresh token yet, on which
`access_token_response` raises.

### Users, Logs

| code | module |
|---|---|
| `auth_user`: password and e-mail; `auth_userprofile`: phone_number (unique) | `users`, `phone` |
| `create_user_with_email`, `create_tv_user`; `create_user_with_phone` | `CreateUser`; `CreateUserWithPhone` |
| `reset_password_with_phone`, `PasswordView`, `Profile.post` of the first version, `UserProfileView.put`, `UserPhoneView`, `UserEmailView` | `ResetPassword`, `ChangePassword`, `EditProfile`, `PutProfile`, `BindPhone`, `BindEmail`, which begin a request |
| the rows a handler has read, `user.save()`, `profile.save()` | `req[p]`; `ReadUser`, `ReadProfile`, `SaveUser`, `SaveProfile` |
| `check_validate_used`, `user.password != '!'`, the e-mails already bound | `CheckPhone`, `AdmitsPhone`, `AdmitsPassword`, `CheckEmail` |

A read is a step of its own that may follow the beginning of its request at once, so that rows from a
snapshot are among the cases. Who may pass `check_validate_used` is a fact about persons here (`Proves`): whoever holds
the phone. That a code proves it is what `SmsValidate` shows. `human` and `chooser` say whose a user
is and who made up a password.

`Logs` has the files that `v1/log.py` appends to and renames (`Open`, `Write`, `Rename`; `OpenFails`,
`WriteFails` for the exception that the handler logs and answers as a success) and those
that `v2/logs.py` writes into the directory of the day (`LookForDirectory`, `MakeDirectory`, `Store`). A
file keeps its identity when its name changes, as a descriptor does; `stored` is history: what was written to the end before it was answered.
In `Users`, `Break` ends a request with a 500, which tells nothing of what it has saved.

`MCServer` puts both beside `SocialAccounts` and `SmsValidate` with one worker each, in the way the
browser's harnesses do (below): the variable `on` names the part that takes the steps. `MCTokens` is `OAuthTokens` with a
worker that may be `alone`, when requests do not overlap (`Overlap`); it assumes finitely many tokens.

### The browser's modules

Each is a component with the page and the user around it. Three conventions hold throughout.

* A state record `S` is passed through operators named for the functions of the code, in the
  order in which the code calls them, and an action ends in `Become(...)`: one action is one event
  (a touch, a click, the end of a transition, a timeout, an answer) with everything its handler calls.
* Positions are small integers: steps of the finger, rows, months, slides. Times are
  the order of events: a timeout may fire at any moment after it is set, and before what the code itself
  orders behind it.
* Some orders of events are not followed to their end, because the code goes astray in them and every
  property would fail. They set a history variable (`crossed`, `rushed`, `disturbed`, `crowded`,
  `odd`, ...), named in the properties that except them, and section 6 says what happens in each.

| module | code | state and actions |
|---|---|---|
| `TeacherApp` | `teacher.js`, `teacher_router.js`, framework7 Views, XHR, Router | `view` (pages, bars, history, url, lock, animations awaited), `wire`, `cache`; answers and failures of pages and data, ends of animations, links, the form, a finger that swipes back |
| `Modals` | framework7 Modals | `el` (class, mark, listeners of each element), `overlay`, `stack`; app.modal and its kin, actions, popover, popup, picker, login screen, taps, ends |
| `Panels` | framework7 Panels, Swipe panels | `active`, `pos`, `allow`, `ends`; open, close, touches, ends |
| `PhotoBrowser` | framework7 Photo Browser | open, close in a popup, page or alone; slides, pinches and double taps in any order; pulling it away, timers |
| `Notifications` | framework7 Notifications | items with a hold, callbacks and custom markup; add, close, taps, ends |
| `Calendar`, `Picker` | framework7 Calendar, Picker | months on the strip, listeners, chosen dates; wheels with momentum frames, dependent columns |
| `ListRows`, `PullToRefresh` | framework7 Swipeout, Sortable, Pull To Refresh | rows that are out or sorted, with two fingers; pull, trigger, done |
| `FastClicks` | framework7 Fast Clicks | touches, selection, focus, the clicks made and those the browser makes, ripples, tap and hold |
| `Searchbar`, `SmartSelect`, `VirtualList` | framework7 | enabling late on iOS, overlay and filtered list; lists of options in page, popup or picker; rows cached by index, window, filter |
| `Loader` | `require.js` newContext | modules enabled, inited, loaded, errored; ticks, scripts, timer, cycles |
| `Collections`, `Router` | `backbone.js` | models, index, listeners, requests; handlers, address, entries of the history, the interval |
| `Swiper`, `Scroller` | `hack_swiper.js`, `iscroll.js` | see their headers |
| `BootstrapModal`, `Tooltip`, `Carousel`, `Accordion` | `bootstrap.js` | show and hide with callbacks of transitions in flight |
| `Datepicker` | `bootstrap-datepicker.js` | dates, viewDate, focusDate, field; clicks, keys, typing, the page's calls |
| `Uploads` | `jquery.fileupload.js` | uploads with their state, `slots`, `chain`, counters |

`MCCoursePages` holds the teachers' page and what surrounds it, `MCLibraries` the loader, router, uploads, modals
and carousel, `MCWidgets` the rest. In each the variable `on` names the
component that takes the steps; the others stay as they were at the start, so that a run
checks every component in full and pays the sum of their states, not the product. They share no
state in the code either, apart from the document. A property of these runs is the
conjunction of the properties of the components' modules that are about one question, defined at the
end of the MC module; the comment of each part stands in the component's own module. The mutants
break one part of each.

Loops of the code are written in closed form where a proof must see through them. In `Uploads`, what the end of an upload sets
off (slots shifted until one can be sent, refusals on the way that end at once) is `FirstToGo`, the place of the first in the queue
that goes, and `Refuse`, which fails those before it together. In `Carousel` the requests that wait (`Asked`) are answered up to the first
that slides. `Router` finds where a page leads by the first handler that matches (`Led`). In `Tooltip` those who wait for a transition are
told one by one (`Tell`), in steps of their own between which nothing else happens. In `Accordion` the panels that give way hide at once (`HideAll`),
and an instance is known by a number that its panel gives once (`Fresh`). `Collections` walks a list of models one by one, by recursive functions.

## 4. The runs

`CHECK_DEADLOCK FALSE` is set everywhere: clients and users may stop, the bounds on rows, tokens, codes, pages
and the clock stop them, and some widgets' models stop after an oddity (above). Starting a request or a
gesture is never fair.

| run | configuration | shows |
|---|---|---|
| `sms_race` | two workers serving web and API alike, one phone, two codes | stale saves never make a judged code wait again or verified without proof, nor does a colliding code; an operation goes through only within TIME_OUT of a proof, and the time the two requests took: one from the presentation to its save, the other from the clock to here |
| `server` | accounts, one worker: three users, three accounts, crashes; codes, one worker: three sends without captcha, clock to 3; users, two workers, who take turns if `alone`: two users, two phones; logs, two workers, three uploads | accounts, for one request at a time: one account per provider, a way in for everybody; users, overlapping: a phone is one user's, who holds it, passwords of their owner (LoginsKept); codes, for one request at a time: after three sends one must post what the session holds, spacing, one message per authtoken (CodesRationed); a request refused by its handler saved nothing, a log written and answered stays (AnswersTrue) |
| `sms_check_says` | violation | an old code is accepted again (below) |
| `social_race` | two workers, two users, weixin accounts with a shared unionid and without any, REPEATABLE READ | logins land in a user of the same person, though the snapshots they look into are stale |
| `social_snapshot` | two workers, one account, REPEATABLE READ, two rows | no account has two owners, `AccountRegistry` is implemented, every admitted request is answered |
| `social_race_says` | violation | below |
| `token_race` | two workers, or one worker that may die (`alone`), three tokens, SINGLE_ACCESS_TOKEN | descendants stay within the grant, refreshed tokens and answered codes stay dead; with one worker, of the tokens of one code one is live at most |
| `token_single_says` | violation | below |
| `course_pages` | the teachers' page with three urls and the nine parts around it | pages, address, history and indicator agree; no overlay is left without something open; panels, months, photos, rows and the refresh mark rest as they say; locks are given back |
| `libraries` | loader (four modules, a cycle, a shim), router, four uploads, two modals, three items | callbacks, routes, limits and progress are right, modals leave nothing behind, everything asked for comes |
| `widgets` | eleven widgets | they rest right; indexes, caches and values agree; one tap is one click; what is open looks so; steps keep what they should; each but for what the histories of section 6 tell |
| `upload_limit_says` | violation | below |

*Bounds of the server's runs.* Two workers are what a race needs: every hazard listed is a pair of requests. Two codes let
one be expired by a request for the other. The durations keep the order they have in the
code; in `sms_race` they shrink to 0 and 1, which puts every comparison at its boundary.
Three rows of UserSocialAuth allow a row to be deleted and its account to be bound
again beside another's; two are enough for a stale snapshot of one account. Three tokens
allow a token, its refreshed successor and the product of a racing or repeated refresh.
`token_race` sets SINGLE_ACCESS_TOKEN, which adds the step `GetAccessToken`; the theorems
hold with either value. Symmetry is used for workers, codes, tokens and users that no formula tells
apart, and not in the runs with a liveness property. In `server` the accounts and the codes have one worker,
for properties that the code keeps only when requests do not overlap: with two workers
CaptchaAfterThree, WaitingCodesSpaced, KeepsALogin, OneAccountPerProvider and OneLiveToken
fail (two handlers pass the same check, then both act). These races are listed among the hazards as such; what the run adds is that crashes, retries
and long sequences of requests break nothing by themselves. ChangesAsked of the users, whose requests overlap unless `alone` holds, needs that premise
(a theorem, section 5); OwnWays, RefusedIsNothing and the logs do not. That a binding which is answered has its row is not claimed at all: at REPEATABLE READ, MySQL's
default, which no DATABASES option changes, the one that lost looks for the winner's row in its own snapshot and does not find it, as a new user's login does not
(`social_race_says`).

CaptchaAfterThree says that nobody who is locked out is served without posting what his session holds. It does not say that he has solved a captcha: a refused send
writes '!' into the session (`social_oauth/sms.py:33`), and a client that posts '!' next is served. The model has this path, and a message sent over it does not count
as one that was not asked for. Likewise a 200 of `v1/log.py` does not tell that the log was written: an exception is logged and answered like success (`:37-40`); StoredIsKept
speaks of what was written. Two users
suffice to want one phone, two phones to lose one for the other, and Bob, who is neither user, to try what is not
his. Three uploads let one be appended while a second renames and a third opens anew.

*Bounds of the browser's runs.* Every list is as long as its hazard needs: three dialogs so that one is open
while two wait (`MaxBusy` elements are open, wait or move at a time); two openings of the photo browser; two posts of the form in flight, which nothing locks (`MaxPosts`); five pages so that one leaves, one comes and others stay behind or are reloaded; three rows, so that a
sorted row passes one and stops at another; four modules, two of them in a cycle, one of which needs a shim; four uploads of which one is vetoed, under limits 1 to 2 and in sequence; four notifications,
two of custom markup, so that one of each kind leaves before the other; three or
four slides, doubled where they loop; five dates in four months and two years. Unbounded counters
(history entries, answers in flight, frames, listeners, waits) are cut at two to four, by guards that name
the constant (`Max...`): one more of them than of anything that distinguishes them.

*Fairness.* `social_snapshot` uses `FairSpec`: weak fairness of each worker's steps, nothing for starts and
crashes. The server schedules its workers, and InnoDB answers a lock wait when the holder
commits or rolls back. That `Answered` holds says that there are no cycles of waiting. In `course_pages` and `libraries`
what is fair is what the browser does by itself: a request is answered or fails, an animation or
transition that has begun ends (`LoadEnd`, `TransitionEnd`, ...), a timeout that is set fires, `setInterval` and
`hashchange` come. Nothing that a user does is fair: that a
dialog which waits in the stack is shown some day is not claimed (a tap on the button of a closing dialog takes the head of the stack and puts it at the tail, framework7.js:3573-3576,
3696-3698). `LocksFreed` and `Served` are conjunctions of leads-to properties under it. LocksFreed excepts data of a page that is lost, a load that crosses a finger,
a photo whose element has gone, a second photo browser, and a pull that the system cancels or another finger begins anew.

*Findings* (`PROJECT.json` quotes both sides):

- `SMSValidate.is_out_of_date` compares `delta.seconds`, which starts again every day; a code
  sent a day and a second ago passes the web check.
- The loser of two first logins with the same account is registered and logged in
  without it, because `associate_user`, having caught the IntegrityError, looks for the winner's row in its
  own snapshot.
- With SINGLE_ACCESS_TOKEN a refresh leaves two rows where `get_access_token` expects one;
  from then on it raises MultipleObjectsReturned for that user, client and scope.
- With `limitConcurrentUploads` 1, which the comment allows, a second upload is sent beside the first: it is piped
  onto a promise that no upload on its way belongs to.

Seen on the way, and not stated as runs: `check_validate_used` promises to update the code it found
confirmed and does not, so that one confirmation serves several operations (`student/api/v2/phone.py:89`);
`SMSValidateConfirmView` judges freshness by `updated_at`, which a failed web check refreshes
(`phone.py:179`); a row is inserted before its message is sent, and blocks the next for a minute when
sending fails (`phone.py:146`); `lockout_until` is never read (`social_oauth/models.py:120`), and a counter
that a success deletes is re-inserted by a concurrent failure (`:149`); two concurrent bindings give a user two accounts of one
provider; a user with a phone but no password is
refused an unbinding that `social_account_bind_status` announces as possible; two overlapping requests of one user
may each save the other's phone, password or e-mail away, since both save whole rows (`student/api/v2/user.py:249`,
`:372`, `:501`); `Profile.post` of the first version assigns to `profile['gender']`, which a model does not support, after
it has saved the new password (`student/api/v1/register.py:145`); of two first uploads of a day one is
refused, because `mkdir` raises (`student/api/v2/logs.py:46`).

## 5. The theorems

They hold for every value of the constants that satisfies the named assumptions, checked by
TLAPS with Z3, Zenon and LS4.

`SmsValidate_proofs`: **TypeCorrect**, **VerifiedRowsAreProved**, **GrantsAreProved**,
**JudgedForGood**. The invariant is `Inv == TypeOK /\ SuccessIsProved /\ HeldRows /\ ClockRead`.
SuccessIsProved alone is not inductive: a save writes what the request has in hand, so
`HeldRows` says what that is. A row in hand exists and belongs to the request's phone, and a
verdict of success means that the code typed is the row's. `ClockRead` says that the clock was not read in the future: a request judges by
what it read, though others save meanwhile. The action properties follow from
`Inv` and one look at the step concerned.

`SocialAccounts_proofs`: **TypeCorrect**, **LandsHomeAlways**, **OneOwnerAlways**,
**RegistryImplemented**. A snapshot may hold rows that are gone and a `save()` may bring them
back, so the invariant has to speak of rows that do not exist. It says that there is a function `f` (`Birth`)
from primary keys to the user and the account each was inserted for, with which the table,
every snapshot and every row in hand agree (`Consistent(f)`); AUTO_INCREMENT never gives a
key twice, so `f` only ever grows. With it go `RowsOK` (a row's user is its account's
holder's), `OnceOnly` (one row per account) and `Apart` (open transactions hold different
users and locks). The refinement shows by cases that each step adds one owner (`OwnerAdded`), removes
those of one user (`OwnerRemoved`), registers a user or leaves `Owner` alone.

`Tokens_proofs`: **TypeCorrect**, **StaysWithinGrant**, **OldAlwaysInvalid**,
**AnsweredAlwaysSpent** and **SpentStaysDead**, which joins the last two. No step gives a row anything back: it agrees with what it was and is live only
if it was (`Weaker`, `Evolves`, lemma `EvolveStep`). What a request has read therefore stays true of the tables while
others run (`KnownStays`), with one exception, that the token in hand has no refresh token
yet; `OneCreates` says that no other request is about to create it. `RequestOK` records
what a request knows at each label, for instance that at `answer` its code is spent. The
three properties and `RowsOK` are inductive together with it. **OneLiveTokenWhenAlone**: while one worker
runs at a time the request in hand is the only one that can create a token for its code, and the live tokens of
a code are the one it will spend or replace (`AloneInv`), whichever requests break off.

`Server_proofs`: **UsersOwnTheirWays**, **AnswersAlwaysTrue**, **TurnsChangeAsAsked**, **LoginsAlwaysKept**,
**CodesAlwaysRationed**. For the accounts (`AccountsInv`), while requests do not overlap the snapshot of the
request in hand is the table, the rows are one per provider and of users who are known, and a way to log in that was
counted before a removal is still there when it is made. For the codes (`CodesInv`) the request in hand agrees with the tables, what was
sent without being asked for a captcha is at most the count and what has not been counted yet, the codes that wait for a phone are
spaced, and authtokens are unique. The proof of CodesAlwaysRationed needs MAX_FAILED to be at least 1. For users and logs a
row in hand is the row of the table, until it is saved, if requests take turns (TurnsChangeAsAsked), and a descriptor leads to a file that stays. LoginsAlwaysKept and
CodesAlwaysRationed are about one request at a time, AnswersAlwaysTrue and UsersOwnTheirWays about requests that overlap.

`Pages_proofs`: **NotificationsAgree**, **PullShowsRefresh**, **PanelsComeToRest**, **PagesAlwaysAgree**,
**CoversAlwaysAgree**. The view's invariant `AppInv` tells its phases apart: it rests, waits for an answer, a page enters, one
leaves, a finger slides one, or a request was lost. In each it says where the pages and navbars stand, what the history and the address are, that one
request at most is in flight, and that a finger holds pages at rest only. The proof has one case per phase and event. That of
CoversAlwaysAgree follows each overlay to the open elements that share it, what is open to whether it is displayed or was opened while it closed, and the dialogs that wait to the stack.
Of panels the invariant says who slides and which listener will hide whom.

Of what a finger moves in the pages, `Pages_proofs` has **PhotosAlwaysAgree**, **RowsAlwaysKnown**, **GesturesAlwaysKept** and **MonthsAlwaysAgree**. Each rests on what
the positions are between two gestures and what a gesture in hand remembers of them; MonthsAlwaysAgree on three months side by side of
which the middle one is in sight.

`Libraries_proofs`: **UploadsAlwaysCounted**, **NothingEverLeft**, **AddressAlwaysShown**, **CarouselAlwaysObeys**, **CallbacksAlwaysRight**.
`UploadsInv` says that the counters are the numbers of uploads in their states and the progress that of the batch
(`Sound`), and, by the mode of the widget, that what waits is in `slots` while the limit is reached (`Slotted`) or in `chain` behind one
that is being sent (`Chained`). The modal's invariant goes by its phases, each with one backdrop at most and the class of the body; the router's
(`RouterInv`) adds that its handlers lead on at most once; the carousel's that whoever waits waits for an event in flight. The loader's (`LoadInv`) says that a script comes before the
dependencies of its module are known (`Scripts`); that what ran had all it depends on, or matched without a value only what needs it in turn (`Ran`); and that whoever was
told of a failure, or listens for one, needs what failed or may fail (`Blamed`). What `Limit` computes is closed and keeps what each of its steps keeps (`LimitIs`);
a walk of `breakCycle` always stands at something that all on its way need, so that who is met again is in a cycle (`WalkedIs`, `BreaksAre`).

`Widgets_proofs`: **ValuesAlwaysAgree**, **OneClickAlways**, **HoldsAlwaysHeld**, **RestsAlwaysRight**. For the values: the picker's wheels
are where its fingers and frames say (`Sound`), the field of the date picker holds the date that is chosen, and the view is not that date
itself but after the keys that make it so,
the smart select has checked what is chosen and not disabled. For clicks (`FastInv`), which mark an element may carry and which timeout
takes it away, that an element nobody touches has none, and what a finger in hand remembers of where it began. For what comes to rest: without momentum a wheel that no finger
moves is sent to the item it chose, and the value was made when the second column was last filled (`PickerRest`); the scroller's content
is moved by one transition or one loop at most, of the kind its options say, whose end is within the bounds and at the page counted on,
and a scrollbar that is seen will be told of that end or was forgotten (`ScrollInv`); slides stand, or glide to, where the active one
is unless a finger drags them or a gesture left them, and an autoplay has one timeout at most, none while it is paused (`SwipeInv`). Two lemmas carry most of it: what `scrollTo` and `slideTo` leave behind in every case (`ScrollSends`, `GlidesTo`), and
that on the grid `updateActiveIndex` finds the slide that stands there (`NearestOnGrid`).

`Lists_proofs`: **DataAlwaysAgrees**, **OpenAlwaysAgrees**. A virtual list (`ListInv`) has items that differ, a filter that is a part of them, and a cache
in which each number of a row leads to the item that the list, or the list filtered, has there; the rows in the page are those of the window
around where it was painted last. A collection (`ModelsInv`) holds models that differ, hears each once and has for keys their cids and ids and no others
(`Indexed`), until two have come to have one id; `Awaited` says of each request under way which model it is of and that an
answer names no id twice. `set` and `remove` walk lists of any length. What they do to each is a lemma (`SeesOne`, `RemovesSeen`), and what the walk leaves behind is proved by
following it from one number of models to the next (`UpTo`, `SeesAllIs`, `RemovesIs`, which also show that the recursive functions are defined).
What is open: the search bar's timeouts come in the order in which they were set, so that those that are late know what stands before them (`InTurn`, `Believes`),
and until the input has been heard the list shows what was searched for last (`Lists`, `Hears`), on which ResultsMatch rests; who
left a tooltip is timed or fading, or the tip was caught on its way out, who hovers over it sees it or will (`TipInv`); a panel that slides is owned by the instance that
will be told of its end, and one at most is open or opening (`AccInv`).

Attempts that failed for a good reason changed the models. ContainerShown of `Notifications` was false with
two notifications of custom markup, which the run did not have, and is stated now as the code keeps it. Throttled of `Uploads` excludes
sequential uploads with a limit above one, which wait in slots that nothing frees. `Year` of the calendar is at most 12. `VirtualList` took `rowsAfter`
for any number: with less than half of `rowsBefore` rows after it, what is seen may outgrow what was painted before a new painting is due. `filterItems` chose a set of items and is given indexes in
any order now, as in the code. `Collections` used folds and sorted sequences of the community modules, of which nothing can be proved. `Loader` followed
dependencies by recursive functions over sets and walks, of which it could not be shown that they are defined; it counts its steps down now, from a bound that none of them reaches.

Assumptions: those named in the modules, `SmsAssumption`, `SocialAssumption`, `OAuthAssumption`, `UsersAssumption`,
`LogsAssumption`, `NullAssumption`, `TokenAssumption`, and of the browser's `PagesAssumption`, `ModalsAssumption`,
`PanelsAssumption`, `CalendarAssumption`, `PhotosAssumption`, `RowsAssumption`, `UploadsAssumption`, `RouterAssumption`,
`CarouselAssumption`, `LoaderAssumption`, and of the widgets' `PickerAssumption`, `ClickAssumption`, `DatesAssumption`, `TipAssumption`,
`AccordionAssumption`, `SearchAssumption`, `SelectAssumption`, `SwiperAssumption`, `ScrollAssumption`, `ListAssumption`, `CollectionAssumption`. They say that NULL is no value of the other sets, that durations, sizes and limits are natural numbers and not
zero where the code divides by them or loops on them, that the kinds of elements are disjoint, that a row of slides has one, that a unionid names one person, that
a route leads elsewhere once, that a list of items has none twice and an id is no cid, that modules and calls are finitely many and have names of their own,
and that none has more dependencies than there are modules. TLC evaluates them on every run.

*Only model-checked.* The rest of StepsKeep (`NextIsNext`, `KeepsPlace`, `Mirrors`, `HidingWrites`). And
whatever is live (Answered, LocksFreed, Served): liveness under fairness is out of the prover's reach.

## 6. What the browser's models except

The behaviours below were found while modelling. The code does not recover from them, so the
properties except them by the history variable given; nothing in the repository promises otherwise.

- `TeacherApp` (`crossed`): the posted form is answered while a finger holds the page; the load
  begins under the finger and history and page diverge. A network error (`lost`) calls `error` only, the
  indicator stays. Posts are not locked: the form may be sent again while one is in flight (`posting`).
- `Modals` (`again`): "do nothing if this modal already shown" (framework7.js:3579) is not what the mark
  tells: shown again while it closes, a modal is open and, at the end of its closing, hidden (`:3686`), while its overlay stays. OpenIsDisplayed excepts it, NoOrphanOverlay
  counts it as open. The overlay that dialogs, sheets, popovers and pickers share goes with whichever closes: a picker that closes uncovers a dialog. With four dialogs
  one of them may wait for ever (section 4).
- `Panels` (`rushed`): opened or grasped while it slides back from a swipe given up, a panel is hidden
  by the listener of that one.
- `Calendar` (`disturbed`): turning back, changing the year or closing during a slide leaves
  months in disorder; two turns at once go one month beyond maxDate, which `OneBeyond` allows.
- `PhotoBrowser` (`crowded`, `unheard`, `forsaken`, `strayed`): opened before the old one is gone, `pb.container` is both, and is not followed further;
  `onPageBeforeRemove` is dropped at the first page removed, whichever it is; a photo pulled when its element has gone never ends its way back, and the swipe that closes is
  off for good; two fingers on a photo that was only drawn into sight, or slides out of it, or slideTo of the photo it slides to already
  (`:13474`), leave an enlarged photo out of sight (`:7813`). The scale is kept when it is closed while zoomed: the next double tap puts back what is not enlarged.
- `Picker`: without updateValuesOnTouchmove the value is stale until the wheel rests.
- `VirtualList` (`muddled`): moving an item up, or replacing one that the filter still holds, leaves the
  cache in disorder; three unsorted indexes at once do so too, and the module deletes two at most.
- `ListRows`: `touchcancel` is not heard by rows; a row opened or deleted beside one that is out confuses the two.
- `PullToRefresh` (`again`, `lost`): pulled again while refreshing, the first `done` hides the mark; on
  iOS `touchcancel` leaves the pull touched, and no other touch is heard; on Android a finger on another element of the content begins the touch anew, and the content stays where it was pulled.
- `FastClicks`: a tap that selects text, and one that ends on a focused field, leave active marks.
- `Searchbar` (`silent`, `crossed`): text pasted with the mouse is not heard before the next key; on iOS,
  typing in the 400 ms before the bar is enabled leaves the overlay over the results.
- `SmartSelect` (`apart`, `stale`): an option added while the popup is open is not shown (framework7.js:4991 returns before
  the branch at 5249). Where the text is the value, several names joined by commas are the name of no option: adding one then deselects them all (`apart`), and the
  list that is open does not know (`stale`); nor does either know what the page selects by itself.
- `Notifications`: one of custom markup has no transition, and goes only with the container.
- `Loader`: after a timeout `checkLoaded` never works again (`ChecksAgain`, not a run, against
  require.js:644).
- `Collections` (`doubled`): `create()` answered after a fetch brought the same id leaves two models of one id
  (`IndexSays`, not a run).
- `Datepicker` (`typed`, `shifted`): Escape, Tab and Enter make viewDate and the chosen date one object, so that picking a month or a year
  then changes what is chosen, and the field says so only when it is written next, at the latest when the picker is hidden (HidingWrites). Enter, and the button for today, may choose a
  date out of range (bootstrap-datepicker.js:1374, `:1110`); that what is chosen is in range is not claimed.
- `Scroller` (`lost`, `raced`, `cut`): a finger that halts content on its way to a page and lets go leaves it between pages, and a reset from beyond the ends
  looks for none; two frame loops race; a flick to the same place leaves the scrollbar.
- `Swiper` (`stuck`, `restarted`): slides that a finger caught in their glide, that a second finger let go (hack_swiper.js:1413), or that were moved under the finger, stay where they
  are let go; so do those in a direction that is locked. Started again while it is paused, autoplay has two timeouts. That autoplay goes on is not claimed: it pauses
  for a transition that does not come, when it is sent to the slide where it stands (`:486`, `:1637`, `:1668`); a jump in mid-glide takes the transition away; and a loop's timeout that
  finds the slides animating does not set another.
- `BootstrapModal`: shown again while it hides, a modal stays hidden and its backdrop is orphaned; two modals at
  once lose the body's class and padding.
- `Tooltip` (`odd`, `caught`): the pointer returns while the tip fades, which then stays but is not seen; destroyed, the tip fades, and if the pointer
  enters before it has gone and leaves after, it stays for ever (bootstrap.js:1680, `:1541`).
- `Accordion` (`bare`, `early`): a panel open in the markup has its instance dropped in the middle of hiding.
- `Uploads`: sequential uploads with a limit above one leave the first in the queue.

## 7. Not modelled

Of the server: the authorization page's session (`provider/views.py:310`), the pending change of an e-mail, which is saved
in two rows (`student/models.py:135`), and the resetting of a password by mail, the profile that is saved whole after a social
login and may overwrite a phone bound meanwhile (`social_oauth/views.py:211`), seats of courses (`student/api/v1/enrollment.py:62`; the
table is edx-platform's), caches and the weixin token (`student/api/utils.py:195`, `util/weixin.py:57`), devices (`v2/device.py:24`), `generate_int_id` (`util/db.py:56`), tracking,
metadata and serialisation, the providers' protocols inside python-social-auth's backends, its
adapters to other frameworks, and django-social-auth, for the reasons in `PROJECT.json`.

Of the browser: layout and markup; framework7's messages, tabs, forms and templates; loader plugins of require.js; Backbone's
views; effects, free mode and zoom of the sliders; Bootstrap's alerts, dropdowns, tabs, affix
and scroll spy; date ranges; jQuery, zepto, underscore and the rich-text editor. What is left out of a
module is said in its header or in `PROJECT.json`. The browser itself is modelled
from what the code relies on: transitions end, handlers run to their end, events come in any order.

External behaviour is modelled from its use here: the SMS service succeeds or fails, a provider
authenticates a person as his own account, MySQL keeps snapshots and locks unique keys.
