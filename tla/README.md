# chafan-core in TLA+

Specifications of the backend in `chafan_core/`, the TLC runs that check them
on small instances, and TLAPS proofs of their main invariants for instances of
every size. Paths below are relative to the repository; `app/` abbreviates
`src/chafan_core/app/`.

## The system

One uvicorn process serves a Q&A site: FastAPI endpoints (`app/api`), domain
services (`app/services`), queries and row updates (`app/crud`), Postgres
through SQLAlchemy, Redis for caches, queues and short-lived codes. Handlers are
synchronous functions, so they run **concurrently in a thread pool**; jobs of a
scheduler run beside them, one run of each job at a time.

How a request touches state is the same everywhere and shapes every model:

* `api/deps.py` opens one `RequestContext` per request and commits when the
  handler returns, or rolls back when it raises. Postgres runs at its default,
  READ COMMITTED.
* The session has `autoflush=False` (`db/session.py`). A row is loaded once into
  the identity map, changed in memory and written at a `flush` or at the commit,
  **as literals computed from what was loaded**, and only the columns whose value
  changed. So `x.count += 1` in two overlapping requests can lose one increment.
  `db.refresh(x)` reloads a row and discards what was not flushed.
* After the commit, `BackgroundTasks` run `services/postprocess.py` in sessions of
  their own (`infra/runtime.py`), which swallow exceptions and live only in the
  process's memory.
* Redis is no part of a transaction: what was put there stays when the request
  that put it rolls back.

### Components, their state and what makes them correct

| component | state | operations | what must hold, what is hard |
|---|---|---|---|
| votes and karma | `*_upvotes` rows, `upvotes_count`, `User.karma`, `User.remaining_coins`, `CoinPayment` | upvote and cancel on five kinds of content, hide, unhide, delete | counter = rows, karma = recomputed karma, one payment per voter and item, no overdraft; lost updates between overlapping requests |
| rewards | `Reward`, coins of giver and receiver | create (escrow), claim, refund | a reward's coins leave escrow once; expiry and a condition that other users' writes change |
| publishing | `Article`/`Answer` bodies, drafts, archives; background tasks; `Activity`, `Feed`, `Notification` | create, save draft, publish, update, delete; distribute | a publication is announced once; a draft never; replaced text stays in the archive; tasks lost in a crash |
| membership and sites | `Application`, `Profile`, `Site.moderator` | apply, approve, invite, leave, create a site, appoint | applying, inviting and leaving race with approval |
| tokens | `User.bot_token_version`, Redis copies with a lifetime, JWT claims | check, revoke, redeem a code | a revoked token stops working; cache invalidation after commit |
| uploads | `Upload` rows, objects in the store, coins, keys of reports in Redis | upload an image; search for usages and orphans; report misdeclared avatars | a picture is stored and charged once; lock order, object stored before the row commits; what is shown is found, what is found is reported once |
| suggestions and posting | questions, submissions, `AnswerSuggestEdit`, `SubmissionSuggestion`, archives | post, edit, suggest, accept, reject, retract | one decision per suggestion; no text lost |
| comments | `Comment` rows, tasks | write, share, delete | told once, shared once, whatever order the tasks run in |
| activities and notifications | events, policy table, `Activity`, `Feed`, `Notification`, Redis queues, the table of sockets | distribute, push, poll | every sink of the policy is served; messages lost with sockets |
| links and channels | follows, subscriptions, bookmarks, `Channel`, `Message`, writing sessions in Redis | join, leave, open, write | rows that should be there once, without a key that says so |
| accounts and signing in | addresses, codes in Redis, passwords, letters, `AuditLog`, the link of the day | open, prove an address, log in, reset, edit the profile | codes used once, addresses kept, the audit log complete |
| payments | `CoinPayment`, `CoinDeposit`, forms | write an article, create a site, pass the welcome test | paid for once, earned once |
| feeds and timelines | `Feed`, `Activity` | page through them | no activity twice, none skipped, while rows come and permissions change |
| reading | the live, hidden, deleted and visibility flags | some forty routes and lists, RSS | routes and lists about one thing agree |
| search, keywords, interests, views, webhooks | index directories, keyword columns, lists of ids, counters | jobs of the scheduler and tasks that follow edits | never half a state; stale by no more than the schedule |
| link previews, e-mail, ranking, admin tools, configuration, migrations | I/O, or none | | |

The components meet in four places: the user's row (`karma` and
`remaining_coins` are written by votes, rewards, posting, uploads, profiles),
`events.distribute` (called by services inside their transaction and by
background tasks in theirs), Redis, and the live/hidden/deleted flags of content,
on which karma, rewards, lists and announcements depend.

## Modules

Of the first six components each has a module, a run of its own and proofs. Where no MC
module is named, the instance's functions are defined at the end of the module:

| module | models |
|---|---|
| `Votes`, `MCVotes`, `VotesProofs` | vote requests, query by query; instances; proofs |
| `VoteBook` | what voting promises: a book of votes without requests |
| `Rewards`, `RewardsProofs` | rewards: creating, claiming, refunding |
| `Publishing`, `PublishingProofs` | drafts, publication, archive, deletion and the background task that announces |
| `Publication` | what publishing promises: the life of an item without requests, tasks and crashes |
| `Tokens`, `TokensProofs` | bot tokens, link codes, revocation and the counter cached in Redis |
| `Uploads`, `UploadsProofs` | image uploads: advisory lock, charge, object store, crash; proofs of `Uploads` and `Usages` |
| `Usages` | where uploaded pictures are used, orphans, reports of misdeclared avatars |
| `Images`, `MCUploads` | a behaviour of `Uploads` or of `Usages`; instance |
| `Membership` | applying, approving, inviting, joining by link, leaving, and the quota of links; run with `Platform`, proofs in `PlatformProofs` |
| `SumTheorems` | what sums over finite sets are, for the proofs about karma, coins, scores and keys |

The others are run together, see *Community and Platform* below, and their proofs are in
`CommunityProofs` and `PlatformProofs`:

| module | models | run by |
|---|---|---|
| `Suggestions` | posting and editing questions, answers and submissions; suggested edits | Community |
| `Suggestion` | what is promised about a suggestion: its course, without requests | Community |
| `Policy` | the policy table of events: what each carries, whom it is for, where it is written | Community, Announcing |
| `Delivery` | the transaction that distributes an event, the queues in Redis and the sockets | Community, Announcing |
| `Announcing` | `Publishing` and `Delivery` composed: from the request to the reader's screen | Announcing |
| `Commenting` | comments, sharing them, and the tasks that follow | Community |
| `Links` | rows that should be there once: follows, subscriptions, bookmarks, one answer per question, handles; writing sessions | Community |
| `Channels` | private channels, messages, the notifications of them, feedback | Community |
| `Accounts` | addresses of accounts and the codes that prove them | Community |
| `Views` | view counters, drained from Redis by a job | Community |
| `Timeline` | paging through the home feed and a profile | Community |
| `Interests` | lists of what may interest a user | Community |
| `Payments` | articles, sites, the welcome test | Platform |
| `Search` | the index of each kind, its scheduled rebuild, what a search shows | Platform |
| `Gates` | who gets to read what | Platform |
| `Access` | who may write what, and what is sent back | Platform |
| `Routes` | the routes about one object, votes, reports, who is in a site, profiles | Platform |
| `Reading` | the lists, bookmarks, lists kept in Redis, the feed of a site | Platform |
| `Signin` | passwords, letters, profile fields and their karma, the audit log | Platform |
| `Keywords` | keywords of texts, sites and users: tasks and the scheduled sweep | Platform |
| `Webhooks` | the tasks that call the webhooks of a site | Platform |
| `DailyLink` | the invitation link of the day, cached in Redis | Platform |

A property that would fail when any two requests overlap is not weakened by
assuming that none do. Each module has a set constant (`IsolatedItems`,
`IsolatedUsers`, `IsolatedLinks`, `OrderedUsers`, `IsolatedContents`,
`IsolatedRemarks`, `SoloPairs`, `SoloPeople`, `SoloMatters`, `Careful`) naming the
items, users or links on which requests *happen* not to overlap; all others overlap
freely in the same behaviour, and share users, threads and tasks with them. The set
is what locking that one row (`SELECT ... FOR UPDATE` at the start of the request)
would give, and the properties about it say exactly what that lock would buy. The
code takes no such lock, so for other items and users these properties may fail; see
Findings and Deviations. Properties without such a set hold for every
interleaving of the code as it is.

### Votes

State: the vote `row` of each (item, user), the item's `count`, `deleted` and
`hidden` flags, each user's `coins` and `karma`, the number of payments `paid`
for each (item, user), and per thread (`Slots`) the request it serves: which
step it is at and everything it has read.

A request is one transaction, modelled query by query because what goes wrong
is what happens between two of its queries:

| action | code |
|---|---|
| `Begin` | `get_current_active_user` loads the voter, so the balance is as of now |
| `ReadItem` | the item's row: counter and flags |
| `ReadVote` / `NoWork` | the first vote query, the author and balance checks |
| `ReadBefore` | `upvoted_before`; a row found stays in the identity map |
| `ReadAuthor` | `karma.tracked` loads the author; the payment uses the same object |
| `Requery` | `crud.*.upvote` asks again, and gets the identity-mapped row if there is one |
| `CommitUpvote`, `CommitCancel`, `CommitDelete`, `CommitHide` | flush and commit |
| `Abort` | any exception; also a unique-key conflict or a failed assertion |

The flush takes the row locks and the commit follows without another read that
matters, so the two are one action; a second writer waits for the lock and then
overwrites with its own literals, which is what the later action does. The five
kinds of content differ in price, in the karma they earn, in what may be hidden
or deleted and in whether the vote is charged and tracked at all (comments are
neither); one module covers them through `Kind`.

`CountAgrees`, `PaidOnce` and `AssertHolds` do not hold for arbitrary
interleavings and are about the items of `IsolatedItems`, while requests of one
user or about one author, and everything on the other items, still overlap.
`KarmaAgrees` is about the user's row and needs more:
requests that do not overlap at all (one slot). In that setting `Votes` implements
`VoteBook`, where karma and counters are not kept but recomputed from the votes.

### Rewards

State: each `reward` row, whether its `expired_at` has passed and whether its
condition holds now (`met`: some answer to the question is readable by the
giver, which publishing, hiding and deleting change), the users' `coins`, and per
thread the request with the row and the balance it loaded. `book`, `claims`,
`refunds` and `everMet` are history.

| action | code |
|---|---|
| `BeginCreate`, `BeginPayout` | the endpoints; an absent or foreign reward ends in `ReadReward` |
| `ReadReward` | `claim_reward` and `refund_reward` load the row and check claimed, refunded, receiver or giver |
| `ReadUser` | the principal is loaded; the balance (create) or the clock (claim) is checked |
| `ReadCondition` | the answers are read again by each claim |
| `CommitCreate` | charge, insert, commit |
| `CommitPayout` | award and commit. The mark (`claimed_at`, `refunded_at`) is set and then discarded by `db.refresh` before anything was flushed, so `Marked` is the row as it was |
| `Expire`, `ConditionChanges` | time and other users |
| `Abort` | any exception |

### Publishing

State: the row of each item (`published`, `deleted`, `body`, `draft`), its `archive`,
the background `tasks` in memory, the number of `announced` Activity rows, and per
thread the request with the row and archive it loaded. Request number n writes
text n, so a text says who wrote it; `ever` remembers which texts were public.

| action | code |
|---|---|
| `Begin` | the item is loaded (`post[i]` goes into the request) and the early checks are made |
| `ReadArchives` | `delete_forever` loads `item.archives` when it loops over them |
| `CommitCreate`, `CommitDraft`, `CommitPublish`, `CommitDrop`, `CommitDelete` | flush, refresh where the code refreshes, queueing of the task, response, commit; `NetChange` is SQLAlchemy writing only columns whose value changed |
| `RunTask`, `FailTask` | `infra/runtime.execute_with_context`: commit, or swallow the exception |
| `Crash` | the process dies: transactions are rolled back, tasks are gone |

Two things decide whether a publication is announced: the flag *as loaded*
(`Was`), taken before the update, and the flag *as reloaded* (`Queue`). Between
them another request may commit. `Publication` is the abstract specification: an
item goes from absent to draft or published, may be deleted, and is announced at most
once. Under the mapping `Phase`, `Gone`, `Told`, requests, tasks, failures and
crashes implement it on the isolated items.

### Tokens

State: `version` (the row's `bot_token_version`), `cache` (its copy in Redis), the
link `code`s in Redis, the `tokens` bots hold, and per thread a request.
`since`, `doubt`, `born`, `minted` and `late` are history.

| action | code |
|---|---|
| `Present`, `Get`, `ReadRow`, `SetCopy`, `Decide` | `deps.get_current_user_id` with `tokens.current_versions`: Redis GET, on a miss the query, SET, comparison |
| `Load`, `Commit`, `Drop` | `revoke_my_bot_tokens`: load the user, commit the literal, then the `after_commit` listener |
| `Generate`, `CodeExpires`, `Claim`, `GetDel`, `Mint` | link codes: SET with a lifetime, GETDEL, load the user and stamp the token |
| `CacheExpires` | the 60 seconds of `CACHE_TTL` |
| `Abort` | any failure, between the commit and the drop included |

The comment above `CACHE_TTL` names the one race a read-through cache cannot
close. `StaleOnlyInWindow` is that claim: the copy is outdated only between a commit
and its drop, or after such a late fill or a drop that was lost (`late`).
`RevocationIsSeen` is the consequence a caller relies on, `CopyConverges` the
backstop. `token_version`, which would refuse website sessions too, is moved by no
code of the program (`revoke_all_tokens` is called by a test only) and is left out,
so a website session is never refused by a counter.

### Uploads

State: the objects `stored` in the bucket, the number of `rows` of each picture, the
users' `coins`, the holder of each advisory `lock`, and per thread a request with
the balance it loaded at its beginning. `charges` and `book` are history. A picture
is the hash of its sanitised bytes; `Key` maps it to its lock and may map two
pictures to one, as `advisory_key` may.

| action | code |
|---|---|
| `Begin` | `upload_image` up to the hash; the uploader, and so the balance, is loaded here |
| `LockSha` | `crud.upload.lock_sha`, enabled when no other transaction holds the key |
| `ExistsWithSha` | `exists_with_sha` and, for a new picture, the balance check |
| `PutImage` | `object_storage.put_image`: takes effect at once, whatever becomes of the transaction |
| `CommitUpload` | `deduct_coins`, `crud.upload.create`, commit, which releases the lock |
| `Abort`, `Crash` | an exception; the death of the process. The bucket keeps its objects |
| `Elsewhere` | another component commits a balance |

The balance is checked after a wait of any length on the value loaded before it.
`NoDebt` holds nevertheless, because the literal written is the checked value less the
cost; what is lost is what others wrote in between, so `BalanceExact` is about
`IsolatedUsers`.

### Usages

State: the rows of `uploads`; for each column of each work the pictures
whose links it holds (`held`); whether the work is a draft, public or deleted; the keys
of reports in Redis (`flags`), and the check each reader of the article is at. Writing
is one step here: `Create`, `SaveDraft`, `Publish`, `Suggest`, `Accept` and `Delete` move texts
between columns as their handlers do, for requests that overlap on a text are the subject
of `Publishing` and `Suggestions`. `find_orphans` searches `REFERENCE_COLUMNS`, the list kept
in `services/uploads.py`; `OrphansAreNotShown` says that this list is long enough for all
that readers are shown. A check is `LookAtArticle`, one `CheckPicture` for each picture, in any
order, and `ServeArticle`; a command of Redis may fail, or set the key and lose its
answer, in which case nobody reports the picture until the key expires: `ReportedOnce` makes
room for that (`silent`) and for nothing else. Once the article has been looked at, fewer
writes follow (`MaxWatched`).

### Membership

State, of one site: whether each user is a `member` (a `Profile` row), the
application rows `app`, the `quota` of each link, and per thread a request with
what it has read. `left` (the last thing the user did about the site was to leave
it) and `uses` (committed uses of a link) are history.

| action | code |
|---|---|
| `BeginApply`, `BeginApprove`, `BeginLeave`, `BeginInvite`, `BeginLink` | the handlers `site_apply`, `approve_application`, `remove_my_site_membership`, `invite_user_to_site`, and `join_site_with_invitation_link` or `open_account` |
| `ReadLink` | the link and its quota; the date of expiry may refuse it too (`Abort`) |
| `ReadInviter` | `check_user_in_site` for `AddSiteMember` |
| `ReadApplication` | apply looks for any application, approve loads one by its id, invite and leave take the first they find |
| `ReadProfile` | `crud.profile.get_by_user_and_site` |
| `CommitApply`, ..., `CommitOpen` | flush and commit; a second `Profile` of one user violates the key, so it can only fail (`Abort`) |

The handlers read in different orders (invite looks for the profile before the
application, leave the other way round), which is why the reads are actions of
their own. `Approved` is the row as it was: the mark that the application is no
longer pending is set and then discarded by `db.refresh`, as with rewards.
`LeavingIsFinal` says why this does no harm in sequence: leaving withdraws the
application, and a withdrawn one cannot be approved. Overlapping requests about one
user can still make two applications, one of which then survives his leaving; so
`LeavingIsFinal` and `AppliedOnce` are about `IsolatedUsers`.

### Community and Platform

The remaining components are small enough to share two runs. `Community` and
`Platform` declare the variables of all of theirs, instantiate each module and let a
behaviour run **one** of them, chosen by `part`; the others stay as they were
initially. The components of a run share no variable, so steps of two of them
commute and interleaving them would show nothing new. Components that do share state
are composed elsewhere: `Announcing` runs the tasks of `Publishing` as the transactions
of `Delivery`, `Reading` runs the operations of `Access` and the votes of `Routes`
under its lists, and `Membership` is the module that `Platform` extends.

**Suggestions.** State: the row of each content, its archive, its contributors, the
suggestions, and per thread the request with what it has loaded. `BeginOnContent` and
`BeginOnSuggestion` load and check, `ReadContent` is the second query, and
`CommitProposal`, `CommitEdit`, `CommitDraft`, `CommitAccept`, `CommitAnswer` write all of
it in one commit; `Abort` is any failure. Request n proposes or writes text n, so a text
says who wrote it. A direct edit and an accepted suggestion go through the same update
(`Replaced`, `Updated`), as they do in the code. `Suggestion` is the abstract
specification: open, taken back or accepted, reopened after it was taken back, used
exactly when accepted.

**Policy, Delivery, Announcing.** `Policy` is a table: the ids an event of each verb
carries, its audiences for notifications and feeds, whether it becomes an Activity,
and whether its subject is left out. `Delivery` is one transaction per event
(`Begin`, `WriteFeed`, `ResolveNotes`, `Notify` per receiver, `Commit`), while readers join
and leave the audiences, and the sockets: `Notify` pushes to Redis before the commit,
`Poll` takes a message and tries to send it, `Drop` is a connection that died unnoticed,
`Restart` a restart of the process. `Announcing` starts that transaction where the task
of `Publishing` runs, and ends the two together. `MessagesAccounted` and `OneSocketLosesOne`,
stated in `Delivery`, are checked and proved as parts of `PublicationServed`.

**Commenting.** A comment is written, shared then or later, and deleted by requests;
the tasks that follow (`Run`, `Finish`, `Fail`) load it when they run, in any order, which
is what makes "told once" and "shared once" hard. `Outage` is a crash.

**Links.** One module for the rows that say that two things belong together. Per
kind of pair: whether the code looks once or twice before it inserts (`LooksTwice`),
whether joining is news (`IsNews`), whether there is a unique key (handles only). Writing
sessions are a look and a mark in Redis, set before the answer is committed.

**Channels.** `Look`, `LookAgain` and `Create` are the three steps of
`get_or_create_private_channel_with`: from the side of who asks, from the other side, and
the insertion. Messages are notified to the members by the policy, and read by whoever
`check_user_in_channel` lets in: two ways to compute the same people. A notification is
marked read or unread by its id (`update_notification`), and is in one of two lists, of which
that of what is read stops at a page (`get_read`). Feedback comes from users and guests.

**Accounts.** `LookAtCode` and `DeleteCode` are the two Redis commands of
`check_digit_verification_code`, `Commit` writes the addresses from the row as loaded.

**Views, Timeline, Interests.** A drain of the list of views in three steps that may
fail between any two; paging by the smallest id seen while activities are
committed out of the order of their ids; lists that are refreshed by a session of their own
and shown as they were before.

**Payments.** `Begin` loads, `CheckCreation` and `CheckClaim` check on what was loaded,
`Write` flushes (and waits for a lock or a key that another transaction has), `Commit`
writes balances as numbers. `Score` scores a form as `compute_score_of_form_response` does.

**Search.** The five indexes in the order of `refresh_search_index`: open and clear the
directory, create the index, fetch the rows, add documents one by one, commit; a raise
commits what there is, a crash leaves a directory without an index. `Results` is what
the search endpoint then shows of rows that have changed meanwhile. Three histories say
what may be expected of it: `promised` documents have been committed by a rebuild and were
searchable ever since, which no later rebuild undoes; `dropped` are those of them that the
last rebuild of their type, which failed, left out of the index it replaced; `outdated`
ones were not searchable any more when their index was last committed.

**Gates, Access, Routes, Reading.** `Gates` has one operator per gate of
`user_permission.py`, `model_utils.py` and the responders: may this reader have this row.
`Access` has an action per handler that writes: its checks, the change of the row, and
the reply, which rolls everything back if its gates leave nothing to send. `Routes` has
an operator per route about one object. `Reading` has an operator per list, the two lists
kept in Redis with half-days passing (`Tick`), bookmarks and subscriptions, and the RSS
feed of a site. That feed goes by the Activity rows of the site (`activities`), of which it
reads the newest `FeedLimit` (`Newest`) and leaves out those that lead to nothing it knows
(`retrieve_content`). A submission has its row from the request that writes it, a first
vote from the vote; new questions, published answers and shared comments wait for their
background task (`tasks`, `Postprocess`), which may come late, in any order, or fail, and is
then not tried again (`lost`). Comments that a later update shares are rows too, and are
left to `Commenting`: they could only push others out.

**Signin.** Log-in, letter, reset and profile edit, each a load, an audit row held back
by a key in Redis, a letter that goes out before the commit, and a commit that writes
the changed columns and moves karma by a difference of two reads. `OpenAccount` and
`UpdateLoginEmail` change accounts under them.

**Keywords, Webhooks, DailyLink.** Tasks that follow edits, load a row and act on it
later (`Load`/`Store`; `LoadPost`, `LoadHooks`, `Call`), under the sweep of the scheduler
(`Sweep`, stage by stage in one transaction) and under settings that change; and the id
of the day's link, put into Redis by `get_or_set` before the row is committed, while accounts
use links up (`try_consume_invitation_link_by_uuid`); `valid` is what a link is shown to be.

## Runs

Every run has `CHECK_DEADLOCK FALSE`, because a behaviour may end: all requests of
the bound have been served.

| run | bounds | shows |
|---|---|---|
| `VotesOverlap` | 3 users, an answer on which requests overlap and a question on which they do not, 2 threads, 4 requests | no overdraft anywhere; on the question an exact counter. bob can pay once and not twice |
| `VotesSerial` | answer, article, submission, comment, all isolated, as with one thread they are; 1 thread, 5 requests | refinement of `VoteBook`: karma as recomputed, a first vote paid once |
| `VotesAssert` | 1 answer, 2 threads, 4 requests | **violated**: a lost update makes a later cancel fail its assertion |
| `RewardsOverlap` | 2 users, one of whom is isolated, 2 rewards, 2 threads, 4 requests | conditional rewards paid only when earned, the isolated user's balance exact |
| `RewardsPaidTwice` | 1 reward, 1 thread, 3 requests | **violated**: one reward is paid out twice, one request after the other |
| `PublishOverlap` | an isolated answer, an isolated article and an answer on which requests overlap, 2 threads, 4 requests, 1 crash, failing tasks | on the isolated items no lost text, full erasure, and the refinement of `Publication`: announced at most once, never unpublished |
| `PublishTwice` | 1 article, 2 threads, 3 requests | **violated**: a publication is announced twice |
| `Announcing` | 2 articles, 1 thread, 2 requests, failing tasks, 1 crash; a subscriber with 2 sockets, 1 restart | every publication reaches a subscriber who connected once and kept the socket (`PublicationHeard`); the task of a publication is the one transaction of its event, what it announced is in every feed and a Notification of every subscriber, each message is in one place, once, and the loop of an only socket goes on (`PublicationServed`) |
| `Tokens` | 2 users, one of whom revokes in sequence, 1 link code, 2 threads, 4 requests, failures and expiry at any step | the copy is outdated only in its window, codes are single-use, revocations are seen, the copy converges |
| `Uploads` | 2 users, one of whom is isolated, 3 pictures on 2 lock keys, 2 threads, 3 requests, 1 crash | each picture paid for once, no row without its object, every upload ends |
| (`Uploads`, part usages) | 2 uploaders, 2 pictures, an article, an answer, a submission, a face; 4 uploads and edits, 3 of them once the article has been looked at; 2 readers, 1 key that expires | nothing shown is an orphan, a misdeclared avatar is reported once |
| `Community` | see below | nine components: texts and suggestions accounted for, sinks served, comments shared once, rows linked once, codes and addresses, views counted once, paging, recent interests, and the refinement of `Suggestion` |
| `Platform` | see below | eight components: leaving is final, payments exact, search, access, routes and lists agree, credentials, keywords, webhooks, the daily link |

| part | bounds |
|---|---|
| suggestions | one of an answer, a submission, a question (isolated) and an answer (not), 2 users, 2 threads; 4 requests on the isolated ones, 3 on the other |
| delivery | one event of any verb, 2 readers, 2 moves in and out of its audiences, a Redis that may fail, 1 restart |
| commenting | 2 comments, one isolated, 2 threads, 3 requests, 1 crash, failing tasks |
| links | 9 pairs, one of each kind and way of overlapping, 1 writing session, 2 threads, 3 requests |
| channels | 2 people, feedback as the only subject or none, 2 threads, 2 openings, 2 messages, pages of 1 |
| accounts | 2 people, 2 addresses, 2 codes, a link with quota 2, 2 threads, 3 requests |
| views | 2 objects, 3 views each |
| timeline | 4 activities, pages of 2, filled up below 2 from the 3 newest, 3 pages, 1 change of permissions |
| interests | ann's 2 lists, 1 question in a private site, 2 days, 2 changes, 3 looks in 2 threads |
| membership | 2 users and 2 links, one of each isolated, 2 applications, quota 2, 2 threads, 4 requests |
| payments | 3 people with 12, 4 and 4 coins, articles of 2, a site of 10, two questions of the welcome test, 2 threads, 4 requests |
| search | 2 questions, an answer, an article, 3 edits, 1 failure or crash |
| reading | alice, bob and a visitor; her question, her submission, his answer, article and comment, in her site, public or not; 3 changes, 2 half-days, a feed of 1 Activity, alice a superuser |
| signin | 3 accounts, one inactive and one yet to be opened, 3 addresses, 2 passwords, 2 threads, 3 requests |
| keywords | a question and an article, a column, a site, a user; 2 words, 2 edits, 2 tasks |
| webhooks | 1 webhook, an answer edited twice and a question, 2 settings, 2 tasks |
| link | 2 requests at a time, 3 rows, 3 days; a key lives 1 day, a link 2 and 2 uses |

Two threads and four requests are enough for every pair of operations to
interleave query by query and for a third and fourth request to meet the
result: vote, cancel and revive against another vote; create, claim, refund
against an expiry; create, draft, publish, delete against a task; fill, revoke, claim
and present; two uploads of one picture, or of two on one lock, against a third;
propose, accept and retract against an edit; apply, approve and leave against an
invitation. In `reading`, three changes suffice to write, mark and then hide,
delete, restrict or leave; half a day is the unit of the two lists in Redis, which live
one and two. A link lives a week in the code and its key a day; what matters is that
the first is longer, which the proofs assume of any two numbers. Each violation needs no
more, and the proofs cover larger instances. One crash suffices because a crash leaves
only committed rows, from which the behaviour continues as from an earlier state.

Three restrictions make `Community` small (`MCCommunity`): suggestions are about one
content at a time, only an isolated content gets a fourth request, and which activities
are public matters to the feed, not to the profile.

Fairness is assumed in three runs. `Announcing` assumes that each queued task runs
(weak fairness of its steps): Starlette runs the `BackgroundTasks` of a response in the
thread pool; and that the loop of every socket polls its queue: `ws.py` sleeps a fixed
time between two polls. A task may fail and the process may die; the property says so. `Tokens` assumes that
threads go on with the request they have begun and that Redis
honours lifetimes. `Uploads` assumes that threads go on, and strong fairness of
`LockSha`: PostgreSQL queues waiters for an advisory lock and grants it in order of
arrival, so that a key that is free again and again is granted. Failing (`Abort`),
crashing and beginning requests are never fair.

## What is proved

`VotesProofs` proves, for any number of users, items, threads and requests:

* `TypeCorrect`, `NeverOverdrawn`, `EveryVotePaid`: for every interleaving. The
  invariants are not inductive; `RaceInv` adds `Reliable`, what a request may
  rely on although the tables moved since it read them: the balance it checked
  is the one it will write; if it believes the voter had voted before, the row
  exists, for rows are never removed; a request about to cancel has seen the row.
* `CounterExact`, `FirstVotePaysOnce`, `CancelNeverAsserts`: for every item of
  `IsolatedItems`, whatever happens on the others. `IsolatedInv` adds `Current`, that what a request read about its
  item is still so, and `OnePerItem`.
* `KarmaExactPerAuthor`: the cached karma of a user is the recomputed one for as long as
  no two requests on the user's items overlap (`Alone`), if it was so when the behaviour
  began (`StartsReconciled`, what the reconciler script establishes). `KarmaInv` adds
  that a request on such an item knows the counter, the flags and the karma as they are.
  `KarmaAlwaysAgrees` follows for everybody when there is one thread.
* `VotesImplementBook`: with one thread, every commit is a step of `VoteBook`, every other
  step a stutter. `SerialInv` joins the three invariants and adds that the balance a
  request checked is the voter's. Here every item is isolated, which one thread makes
  true without a lock.

The recomputed karma is a fold over the items, and a fold picks elements in an order
that nothing fixes. `SumTheorems` proves what such sums are: they exist
(`SumExists`), any element may be taken out (`SumWithout`), they are monotone, and change by
as much as the one element that changes (`SumChanges`). The library's induction theorems
cannot be instantiated, so the lemmas reason about the *set* of the subsets that have the
property, which the well-foundedness of inclusion among finite sets makes the set of all.

`RewardsProofs`:

* `TypeCorrect`, `NeverInDebt`, `ClaimsEarned`: for every
  interleaving. `RaceInv` adds `RequestInv`: the balance a create writes has covered
  the amount, a new reward's row belongs to one request, what a claim loaded about its
  reward is still so (rows never change once made: this is the defect of
  `PaidOutOnce` used as a fact), and a claim that is about to pay has seen its
  condition hold.
* `BalancesExact`: for every user of `IsolatedUsers`. Its invariant adds that the
  balance a request of such a user loaded is still the balance.

`PublishingProofs`:

* `TypeCorrect`, `TaskAssertHolds`, `NeverUnpublished`: for every interleaving. `RaceInv`
  adds that a request that loaded a published row works on an item that is
  published, and that public bodies are texts.
* `AnnouncedAtMostOncePerItem`, `PublicTextsKept`, `DeletionErasesAnswers`: for every
  item of `IsolatedItems`. `IsolatedInv` adds that a request on such an item is alone
  and what it loaded is current (`Alone`, `Current`), that a task still to announce
  is the only one and nothing has been announced before it (`Unseen`, `OneTask`), and
  that texts of later requests are nowhere yet (`Unwritten`).
* `PublishingImplementsPublication`: every step maps to a step of `Publication` or
  stutters, from the same invariant.
* `AnnouncingRunsBoth`: a behaviour of the composition is one of `Publishing` and one of
  `Delivery`, since what a task does to deliveries is a step of the transaction of its
  item. So what is proved of either holds of it.
* `PublicationAlwaysServed`: what a publication promises from the request to the screens, for
  any requests, audiences, sockets, failures and restarts. Its four parts have an
  invariant each. The first, `OneTaskPerEvent`, is the only one about both modules and is
  inductive with `IsolatedInv`: an event ends once because its task is the only one that
  announces (`OneTask`), and a request queues no second one because what is told of is
  published and stays so (`PublishedStays`) and the request has the row as it is (`Current`).
  The others are proved of `Delivery` alone. `DeliveryInv`: an event has served the sinks its
  step is past, for whoever was in the audience all along. `MessagesInv`: the receivers still to
  be notified have no row (`NotesFit`), a queue, what was received and what was lost are apart
  and repeat nothing (`Tidy`), and a message was sent exactly to those who have a row and may
  read it, or of an event that was undone (`Right`): a message is pushed before the commit, so
  this must hold in the middle of the transaction. `SocketsInv`: the socket registered for a
  reader is one of theirs, and the loop of someone who has connected only once finds that
  socket registered and has lost nothing yet.

`TokensProofs`:

* `TypeCorrect`, `OutdatedOnlyInWindow`, `CodesAreSingleUse`: for every interleaving.
  `RaceInv` adds that a code being redeemed or redeemed is gone, and is in the
  hands of one request.
* `RevocationsAreSeen`, `FreshTokensAccepted`, `RevocationsAreComplete`: for every user
  of `OrderedUsers`. `OrderedInv` adds that what a revocation loaded is current,
  that tokens are stamped with the counter of their birth, that nobody has a counter
  from the future, and that a request which began in order finds nothing older than its
  beginning (`ReadsInOrder`): not in the copy, nor about to be stored in it.

`UploadsProofs`:

* `TypeCorrect`, `PaidByTheFirstOnly`, `RowsAlwaysHaveObjects`, `NeverInDebt`: for every
  interleaving, failure, crash and assignment of keys. `RaceInv` adds that a request
  past `lock_sha` holds the lock of its picture, that while it does what it found
  (new or not) is still so, that a request about to charge has checked the balance it
  will write, and that one about to commit a first row has stored the object.
* `LocksGivenBack` (`NobodyWaitsInVain`): a key that is taken belongs to a request which is past
  the lock and about a picture of that key. So nothing leaves a lock behind and no two
  requests wait for each other, which is what `EveryUploadEnds` needs besides fairness.
* `BalancesExact`: for every user of `IsolatedUsers`, as for rewards.
* `UsagesAlwaysHold`: for any texts, writers and overlapping readers. That what is shown is
  found follows from the lists of columns. For the reports, `UsesInv` adds that a key stands
  for one report more than have expired, unless its answer was lost (`FlagsCount`); that what
  a reader is still to look at was misdeclared when he looked, and what he has looked at
  was reported, or failed (`VisitsFit`). No row of an upload is ever removed, so "was" is
  "is" here.
* `ImagesRunUploads`: what the run checks is a behaviour of `Uploads`, too.

`PlatformProofs`, about `Membership`:

* `TypeCorrect` (no quota below zero), `QuotaNeverWasted`: for every interleaving.
  `QuotaInv` adds that a quota that was loaded was at least 1 and, with the uses
  committed by now, still covers the original quota, since uses only grow.
* `QuotasExact`: for every link of `IsolatedLinks`, whose loaded quota is current.
* `LeavingStaysFinal`, `NeverAppliedTwice`: for every user of `IsolatedUsers`. They are proved
  together (`UserInv`): that leaving withdraws *every* application of the user needs
  that there is only one, and that an approval under way is of an application that is
  still pending, so of a user who has not left.

`PlatformRunsMembership` says that a behaviour of `Platform` is one of `Membership`,
whatever it runs, so that these hold of it.

`PlatformProofs` and `CommunityProofs` prove the components that are run together. A
behaviour runs one component and leaves the variables of the others alone (`RunsAlone`),
so each has its own inductive invariant, and the theorem is `PlatformSpec => []P` where P
says what holds if that component runs. For any instance:

| theorem | invariant | what it adds |
|---|---|---|
| `WebhooksAlwaysFollow` | `WebhooksInv` | no task has a later text than there is, and what a webhook was told and is about to be told does not exceed the texts (`TellingsFit`); while webhook and post are fresh, one task is about the post and knows what is so now (`FreshFits`) |
| `KeywordsAlwaysFollow` | `KeywordsInv` | a text that is not mixed has one task at most, which loaded it as it is (`JobsFit`); what the sweep has found of a text is what it says (`SweepFits`), and while no edit interferes it has found all it has passed (`CalmFits`) |
| `SearchAlwaysHonest` | `SearchInv` | what the rebuild has fetched and may still be searched for it will add or has added, and so what was promised before, once it has fetched (`RebuildFits`); what is promised can be read, and is in its index exactly if it was not dropped; what is outdated is not (`IndexFits`) |
| `CredentialsAlwaysHold` | `SigninInv` | a request on a careful account is the only one and has its row as it is (`CallsFit`); what was done is told of by the log, was lost with a failure, or is about to be told (`LogFits`) |
| `DailyLinkAlwaysGood` | `DailyLinkInv` | a row has one owner; the key counts down from the day its row was made and is gone before the row expires, and its id has been of no use for no longer than that (`LinkKeyFits`) |
| `PaymentsAlwaysExact` | `PayInv` | what a request has checked may be relied on (`PaySound`), requests about to commit hold different rows (`PayApart`), someone careful has first coins less what was spent plus what was earned, and their request has loaded that balance (`PayExact`) |
| `RoutesAlwaysAgree` | `ReadInv`, `NobodysOwn` | nobody has voted for what is his own, so that the author is missing from every tally |
| `WritersAlwaysSee` | `ReadInv` | an action property: only what is written is deleted, and every handler that is not an exception ends with the gates of the page it replies with |
| `ListsAlwaysHold` | `ReadInv`, `EventInv` | a kept list has the life that the gaps of what it shows leave it (`ReadLists`); the rows of sites, memberships and items go together (`AccessTyped`); a question, or an answer once published, has its task to come or lost, or its Activity (`EventInv`), which is among the newest or has been pushed out (`NewestOrPushed`) |
| `ViewsAlwaysAccounted` | `ViewsInv` | between reading and deleting, what a run has taken is still on the list |
| `CommentsSharedOnce` | `CommentsInv` | what a task has seen is still so (`ChoresFit`), what is not done yet has a task that will do it unless one was lost (`NoneForgotten`), one task at most logs an isolated comment (`LoggedByOne`) |
| `AddressesAlwaysHold` | `AddressesInv` | the address of a request is the one its code was mailed to (`DemandsFit`); a code is in Redis for that address until a request deletes it, and one request does unless two have seen it (`CodesFit`); the addresses of accounts are proved (`RowsFit`) |
| `LinksAlwaysHold` | `LinksInv`, `ChannelsInv` | what was seen of a pair on which requests do not overlap is still so (`TurnsFit`), and of those who found a writing session unmarked there is one unless it raced or expired (`SessionsFit`); a channel that neither look found is not there (`NotThere`), a message is notified to the other side (`OthersTold`) |
| `TextsAlwaysAccounted` | `SuggestionsInv` | for isolated contents, as in `PublishingProofs`: one request at a time, which knows the rows, and each text says whose it is |
| `SinksAlwaysServed` | `DeliveryInv` | an event has served those sinks which its step is past, for those who were in the audience all along (`EventFits`) |
| `PagingAlwaysHolds` | `TimelineInv` | what is not the reader's comes last and is public (`Padded`); a profile has been scrolled past nothing that lasts (`ScrolledDown`) |
| `InterestsAlwaysRecent` | `InterestsInv` | since when something is listed (`SinceFits`), that a shelf has all that was of interest when it was computed (`ShelvesFit`), and that the list a look loaded was not too old at the look before (`LooksFit`) |
| `PlatformAlwaysTyped`, `TypesAlwaysOK` | all of them | |

`SuggestionsImplementCourse`: from `SuggestionsInv`, every step of a handler on an isolated
content is a step of `Suggestion` or leaves it where it is. Delivery assumes nothing of the
policy but its table, and the proof goes through all of its verbs. `DeliveryInv` is proved in
`PublishingProofs` again: there the events are the items, `Delivery` shares no variable with
the components of `Community`, and neither module can extend the other.

The proofs rest on the assumptions on constants that the modules name, which TLC
evaluates in every run: `ConstantsAssumption` of the first six, and one `...Bounds` for each
component in `Community`, `Platform` and `Images`, and one in `Announcing`. They say that
bounds are numbers, that sets which are summed or counted are finite, that functions have the domains they are applied to,
and the few facts that the code rests on: the key of the daily link lives shorter than the
link, scores per choice are not negative, an answer is in the site of its question. The
theorems with hypotheses of their own are the three about karma.

Some theorems state properties that no run checks any more, because a theorem for every
instance leaves a run nothing to add: `EveryVotePaid`, `FirstVotePaysOnce`,
`CancelNeverAsserts`, `NeverInDebt` (twice), `TaskAssertHolds`, `NeverUnpublished`,
`AnnouncedAtMostOncePerItem`, `NeverAppliedTwice`, `QuotasExact`, `QuotaNeverWasted`, `FreshTokensAccepted`,
`RevocationsAreComplete`, `BalancesExact` of uploads, `LocksGivenBack`, the types of the six modules and those
of the components of `Community`.

Two modules were changed because a proof failed. In `Signin` and `Payments` a `CASE` had
overlapping arms, of which TLC takes the first and the language any: the arms exclude
each other now. And the bounds above were stated, where TLC had needed none.

What can be said without `ENABLED` is kept apart from what cannot, so that it is proved:
that whoever writes can read it is an action property (`WritersSee`), and that votes can be
taken back belongs to `OffersHold`, not to `RoutesAgree`.

Only model-checked are: liveness (`PublicationHeard`, `CopyConverges`, `EveryUploadEnds`) and
what needs `ENABLED` (`OffersHold`: what is offered can be done, votes can be taken back),
which are out of the prover's reach.

## Findings

Runs that are expected to fail, each on one statement of the sources:

* `VotesAssert`: `assert db_obj.upvotes_count >= 0` in `crud_answer.cancel_upvote` can
  fail after two overlapping first votes were counted as one.
* `RewardsPaidTwice`: "The reward is already claimed" is never true.
  `claim_reward` sets `claimed_at` in memory and refreshes the row before a flush,
  which discards the mark; `refund_reward` does the same. No concurrency is needed.
* `PublishTwice`: "is_published is never reverted, so this fires at most once per
  article" (`services/postprocess.py`): the premise is `NeverUnpublished`, the conclusion
  fails when two updates both loaded the unpublished row.

Deviations, seen while modelling, that have no run of their own. The models do what the
code does, and the properties make room for it where they must.

Overlapping requests and failures:

* karma drifts (`KarmaAgrees` with two threads): two overlapping votes on different
  items of one author lose one of the two updates, although `karma.py` says only
  a missing hook can make the incremental and the recomputed karma disagree; overlapping
  edits of one profile may count karma twice;
* two overlapping upvotes of one voter on one item pay twice: `upvoted_before` is decided
  before the row exists;
* an update that archives the public text between the two queries of a deletion
  leaves it in the archive of the deleted answer (`AnswersErased` without isolation);
* two overlapping applications, channels, follows or answers of the same people are both
  recorded; a doubled association row may make leaving fail;
* a notification is pushed before the transaction that writes it commits, and stays
  pushed when that rolls back;
* a crash between `makedirs` and `create_in` leaves an index directory without an index:
  every search of that kind fails or lists everything, and later rebuilds stop there;
* a rebuild of the index that fails commits what it had written so far with
  `mergetype=CLEAR` (`services/search.py:97-101`), over a complete index: what it had not come to
  is not found until a later rebuild writes it again (`dropped`);
* a question or an answer whose background task fails is never in the feed of its site, and one
  whose Activity is not among the newest of its site, votes included, has left the feed for good
  (`services/feed_impl.py:116-119`);
* the id of a daily link used up stays in Redis until the day is over, for
  `get_daily_invitation_link` does not ask whether the link is `valid`; one that was rolled back
  makes the requests that want it fail for up to a day;
* a letter mailed by a request that then fails leaves no row in the audit log, and within
  an hour repeated log-ins leave one.

In sequence:

* a draft may be saved on an unpublished answer, although `models/answer.py` says
  `body_draft` is "Not null only if is_published is `True`"; the draft of a deleted answer
  reads "[DELETED]", and a deleted comment stays listed with that text;
* editing a comment never changes its text (`update` drops `content`); a phone number sent
  to `update_phone_number` is not stored; unsubscribing from an article column does nothing;
  `update_residency_topics` and `update_profession_topics` remove from the list they loop over;
* an approved application stays pending (`Approved`), and stays in the moderator's
  list; a user who left, or was rejected by silence, can never apply again, for any
  application at all answers "Applied.";
* `open_account` consumes a link whose date has passed: `try_consume_invitation_link_by_uuid`
  looks at the quota only, while joining a site asks for `valid`;
* questions, submissions and suggestions ask for a balance that they never charge;
* a moderator may leave a site and stay its moderator, and may hand it to someone who is
  not a member; one who is not the author cannot hide an answer
  (`services/answers.py:353-383`); nothing changes whether a site is public;
* everyone who may ask in a site can go on editing a hidden question, which `get_question`
  refuses even to its author; a deleted article can be edited again by its author;
* comments and votes do not ask whether what they are about can be read; answers of a
  hidden question do not validate and are not shown, while the feed of the site keeps them;
* archives of and subscriptions to submissions ignore hiding, although the docstring at
  `services/submissions.py:34-37` describes them otherwise; who has lost access to something
  cannot take back a bookmark of it;
* the list of pinned questions is kept for all as its first reader sees it; members of a
  private site cannot list its questions;
* the lists of what may interest a user come one look late, although the comment at
  `recs/indexed_layer.py:33` says "return latest version"; a padded home feed may leave out
  items that were delivered and come later; keywords of a hidden question stay in its site's;
* webhooks of sites that are not public never fire, and those for new answers fire on every
  edit of one;
* `_REFERENCE_COLUMNS`, "Every column that can hold the URL of an uploaded image"
  (`services/uploads.py:107`), leaves out the bodies of suggestions: the picture of a pending
  suggestion is an orphan, and in the answer once the suggestion is accepted;
* the welcome test scores a choice that is listed twice twice;
* the task that follows feedback is given no id, for the row has not been flushed, and
  fails its assertion;
* opening a channel without a subject may return any channel of the two, so a different one
  from either side; a channel about the proposal of a site keeps the first proposal;
* logging in with a verification code always refuses; an access token outlives a change of
  the password; the token by which letters could be unsubscribed is never set;
* reports are written and never read; blocked origins are stored and never honoured
  (`services/feed_impl.py:142` says so); `pay_reward_for_invitation`, `cache_matrices` and the
  `force_refresh_*` functions are called by nothing.

## What is not modelled

* Shapes and wording: what a row looks like once it may be shown, how texts are rendered,
  sanitised and matched by a search, the formulas of rankings (`recs/ranking.py`), how
  events are phrased. The models go by which rows are shown, not by what they say.
* Columns that nothing else depends on: most fields of a profile, topics and categories,
  the editing of forms and columns, phone numbers, languages.
* Outgoing I/O that keeps no state: link previews, the sending of e-mail, the picture
  sanitiser. What is sent when is part of the request or the task that sends it.
* Code that nothing calls, listed above, and `token_version`, which only a test moves.
* Tools run by hand (`scripts`, administration, `recs/matrices.py`), the rate limiter, which is
  the library's, start-up and configuration, the uploads proxy and the schema migrations.
* Most of `tests/` and `src/smoke`, which are read for what they say of the program, some
  seventeen thousand of the lines of the repository.

Components that `PROJECT.json` calls "partly" are so because of the first three items; their
notes say which operations are left out.

What the properties leave aside of what is modelled:

* Several hold of *isolated* rows, on which requests do not overlap while everything else does
  (`IsolatedItems`, `IsolatedUsers`, `SoloPairs`, `Alone`), because the code does nothing against
  lost updates of one row. What overlaps do there is in the findings and deviations. The same
  goes for texts that two tasks work on at once (`mixed` in `Keywords`) and for posts that
  change while a webhook is called (`fresh` in `Webhooks`).
* `LoadPost` of `Webhooks` has one flag for all reasons why a post cannot be shown: deleted, its
  question hidden, an answer not for anyone.
* Nothing is un-hidden in `Keywords` (in `Votes` it is).
* `ReadBefore` of `Votes` takes it that a session holds on to the rows it has read; SQLAlchemy's
  identity map is weak, but the requests modelled keep references to them.
* `RegisterCode` of `Accounts` stores a code and its lifetime in one step, of three commands.
* No account of the instance of `Reading` has been made inactive (`Retired`), which is done by
  hand; `RoutesAlwaysAgree` covers those that have.

## Plan

Done: everything above. What remains is worth less than what is there:

1. `Delivery` composed with other services than publishing: votes, rewards and invitations
   distribute their events in their own transactions.
2. A model of coins as a whole: the charges of votes, rewards, uploads and payments on one
   user's row, which each module now represents by balances that change elsewhere.
