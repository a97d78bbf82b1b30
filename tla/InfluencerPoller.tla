-------------------------- MODULE InfluencerPoller --------------------------
(***************************************************************************)
(* One influencer persona (poller.py, state.py): it walks the newest-first   *)
(* feed down to the last post it saw, reacts to the new posts oldest first,   *)
(* and saves the newest of them as its cursor file.  Posts keep being          *)
(* published while it walks, any request may fail or lose its answer, and      *)
(* the container may be killed anywhere, inside the write of the file too.     *)
(*                                                                           *)
(* A post is its place in the order of publication: 1, 2, ... published.       *)
(***************************************************************************)
EXTENDS Integers, Sequences

CONSTANTS
    MaxPosts,     \* bound of the model: posts ever published
    Own,          \* the posts published under the persona's own name
    PageSize,     \* FEED_PAGE_SIZE
    Decisions,    \* what the LLM may answer: subset of Amplify, Criticize, Ignore
    MaxFailures,  \* bound of the model: failed requests
    MaxCrashes,   \* bound of the model: kills of the container
    MaxCount      \* bound of the model: comments of a post are counted up to it

Posts == 1..MaxPosts

ASSUME PollerAssumption ==
    /\ MaxPosts \in Nat /\ Own \subseteq Posts
    /\ PageSize \in Nat \ {0}
    /\ Decisions \subseteq {"amplify", "criticize", "ignore"}
    /\ MaxFailures \in Nat /\ MaxCrashes \in Nat /\ MaxCount \in Nat \ {0}

VARIABLES
    published,  \* the feed is published, published - 1, ..., 1
    comments,   \* how many comments of the persona each post has
    reposted,   \* the posts it has reposted
    cursor,     \* last_seen_post_id in the file, 0 when there is no file
    torn,       \* the file was truncated and not written
    pc,         \* where the poller is
    page,       \* the feed page it asks for next
    found,      \* new_posts, newest first
    next,       \* the place in found of the post it handles, from the end to 1
    newest,     \* the id it is about to save
    decision,   \* the decision it is carrying out
    handled,    \* history: the posts a decision was carried out for, to the end
    baseline,   \* history: the first cursor ever saved, 0 before
    failures, crashes

social == <<published, comments, reposted>>
file == <<cursor, torn>>
walk == <<page, found, next, newest, decision>>
history == <<handled, baseline>>
bounds == <<failures, crashes>>
vars == <<published, comments, reposted, cursor, torn, pc, page, found, next, newest,
          decision, handled, baseline, failures, crashes>>

Init ==
    /\ published \in Posts \cup {0}
    /\ comments = [p \in Posts |-> 0]
    /\ reposted = {}
    /\ cursor = 0
    /\ torn = FALSE
    /\ pc = "down"
    /\ page = 1
    /\ found = <<>>
    /\ next = 0
    /\ newest = 0
    /\ decision = "ignore"
    /\ handled = {}
    /\ baseline = 0
    /\ failures = 0
    /\ crashes = 0

\* Somebody publishes a post.  It enters the feed as its newest one: posts are taken to
\* become visible in the order of their createdAt, which getGlobalFeed sorts by, and two
\* createPost calls at the same moment may miss.
Publish ==
    /\ published < MaxPosts
    /\ published' = published + 1
    /\ UNCHANGED <<comments, reposted, pc>>
    /\ UNCHANGED file /\ UNCHANGED walk /\ UNCHANGED history /\ UNCHANGED bounds

----------------------------------------------------------------------------
(* The walk over the feed.                                                   *)

\* The persona is logged in and the loop of start() is entered.
Start ==
    /\ pc = "down"
    /\ pc' = "sleep"
    /\ UNCHANGED social /\ UNCHANGED file /\ UNCHANGED walk /\ UNCHANGED history
    /\ UNCHANGED bounds

\* A torn file does not parse, so every cycle fails before it asks for anything.
PollFails == pc = "sleep" /\ torn /\ UNCHANGED vars

\* _poll_once begins.
Poll ==
    /\ pc = "sleep"
    /\ ~torn
    /\ pc' = IF cursor = 0 THEN "baseline" ELSE "page"
    /\ page' = 1
    /\ found' = <<>>
    /\ next' = 0
    /\ UNCHANGED <<newest, decision>>
    /\ UNCHANGED social /\ UNCHANGED file /\ UNCHANGED history /\ UNCHANGED bounds

\* GET /api/posts: the n-th page of the feed as it is now, newest first.
\* Mutant: there are no pages after the first.
FeedPage_FirstOnly(n) ==
    IF n > 1 THEN <<>>
    ELSE [i \in 1..(IF published < PageSize THEN published ELSE PageSize) |-> published + 1 - i]
FeedPage(n) ==
    LET newestOfPage == published - (n - 1) * PageSize
    IN  [i \in 1..(IF newestOfPage < PageSize THEN newestOfPage ELSE PageSize)
            |-> newestOfPage + 1 - i]

\* First run ever: the newest post becomes the cursor, and nothing is reacted to.
\* Mutant: the first page counts as new.
Baseline_Backlog ==
    /\ pc = "baseline"
    /\ pc' = "page"
    /\ UNCHANGED social /\ UNCHANGED file /\ UNCHANGED walk /\ UNCHANGED history
    /\ UNCHANGED bounds
Baseline ==
    /\ pc = "baseline"
    /\ pc' = IF FeedPage(1) = <<>> THEN "sleep" ELSE "truncate"
    /\ newest' = IF FeedPage(1) = <<>> THEN newest ELSE FeedPage(1)[1]
    /\ UNCHANGED <<page, found, next, decision>>
    /\ UNCHANGED social /\ UNCHANGED file /\ UNCHANGED history /\ UNCHANGED bounds

\* The posts of a page above the cursor; all of them when it does not hold the cursor.
\* Mutant: the page that holds the cursor is taken whole.
UpToCursor_Whole(posts) == posts
UpToCursor(posts) ==
    IF \E i \in DOMAIN posts : posts[i] = cursor
    THEN SubSeq(posts, 1, (CHOOSE i \in DOMAIN posts : posts[i] = cursor) - 1)
    ELSE posts

FetchPage ==
    /\ pc = "page"
    /\ LET posts == FeedPage(page) IN
       /\ found' = found \o UpToCursor(posts)
       /\ IF posts = <<>> \/ \E i \in DOMAIN posts : posts[i] = cursor
          THEN /\ pc' = IF found' = <<>> THEN "sleep" ELSE "batch"
               /\ next' = Len(found')
               /\ newest' = IF found' = <<>> THEN newest ELSE found'[1]
               /\ UNCHANGED page
          ELSE /\ page' = page + 1
               /\ UNCHANGED <<pc, next, newest>>
    /\ UNCHANGED decision
    /\ UNCHANGED social /\ UNCHANGED file /\ UNCHANGED history /\ UNCHANGED bounds

----------------------------------------------------------------------------
(* The batch, oldest post first.                                             *)

Batch == pc = "batch" /\ next > 0
\* Mutant of Current: the batch is handled in the order of the feed.
Current_NewestFirst == found[Len(found) + 1 - next]
Current == found[next]

\* The post is dealt with: on to the next one.
Done(post) ==
    /\ pc' = "batch"
    /\ next' = next - 1
    /\ handled' = handled \cup {post}
    /\ UNCHANGED <<page, found, newest, decision, baseline>>

SkipOwn ==
    /\ Batch
    /\ Current \in Own
    /\ next' = next - 1
    /\ UNCHANGED <<pc, page, found, newest, decision>>
    /\ UNCHANGED social /\ UNCHANGED file /\ UNCHANGED history /\ UNCHANGED bounds

\* The workflow answers.
Decide(d) ==
    /\ Batch
    /\ Current \notin Own
    /\ IF d = "ignore"
       THEN Done(Current)
       ELSE /\ pc' = "comment"
            /\ decision' = d
            /\ UNCHANGED <<page, found, next, newest>> /\ UNCHANGED history
    /\ UNCHANGED social /\ UNCHANGED file /\ UNCHANGED bounds

Commented ==
    comments' = [comments EXCEPT ![Current] = IF @ < MaxCount THEN @ + 1 ELSE @]

\* After the comment an amplification goes on to the repost.
Comment ==
    /\ pc = "comment"
    /\ Commented
    /\ IF decision = "amplify"
       THEN pc' = "repost" /\ UNCHANGED walk /\ UNCHANGED history
       ELSE Done(Current)
    /\ UNCHANGED <<published, reposted>> /\ UNCHANGED file /\ UNCHANGED bounds

Repost ==
    /\ pc = "repost"
    /\ Current \notin reposted
    /\ reposted' = reposted \cup {Current}
    /\ Done(Current)
    /\ UNCHANGED <<published, comments>> /\ UNCHANGED file /\ UNCHANGED bounds

\* 409 "Already reposted" raises like any other error.
RepostRefused ==
    /\ pc = "repost"
    /\ Current \in reposted
    /\ pc' = "sleep"
    /\ UNCHANGED social /\ UNCHANGED file /\ UNCHANGED walk /\ UNCHANGED history
    /\ UNCHANGED bounds

BatchDone ==
    /\ pc = "batch" /\ next = 0
    /\ pc' = "truncate"
    /\ UNCHANGED social /\ UNCHANGED file /\ UNCHANGED walk /\ UNCHANGED history
    /\ UNCHANGED bounds

----------------------------------------------------------------------------
(* save_last_seen_post_id: write_text opens the file for writing, which       *)
(* empties it, and then writes.                                              *)

Truncate ==
    /\ pc = "truncate"
    /\ torn' = TRUE
    /\ pc' = "write"
    /\ UNCHANGED cursor
    /\ UNCHANGED social /\ UNCHANGED walk /\ UNCHANGED history /\ UNCHANGED bounds

Write ==
    /\ pc = "write"
    /\ torn' = FALSE
    /\ cursor' = newest
    /\ baseline' = IF baseline = 0 THEN newest ELSE baseline
    /\ pc' = "sleep"
    /\ UNCHANGED handled
    /\ UNCHANGED social /\ UNCHANGED walk /\ UNCHANGED bounds

----------------------------------------------------------------------------
(* What goes wrong.                                                          *)

\* The feed, the workflow or social_network does not do what it was asked: the
\* exception ends the cycle.
\* Mutant: the exception is caught post by post.
RequestFails_PerPost ==
    /\ pc \in {"comment", "repost"}
    /\ failures < MaxFailures
    /\ failures' = failures + 1
    /\ pc' = "batch"
    /\ next' = next - 1
    /\ UNCHANGED <<crashes, page, found, newest, decision>>
    /\ UNCHANGED social /\ UNCHANGED file /\ UNCHANGED history
RequestFails ==
    /\ pc \in {"baseline", "page", "comment", "repost"} \/ (Batch /\ Current \notin Own)
    /\ failures < MaxFailures
    /\ failures' = failures + 1
    /\ pc' = "sleep"
    /\ UNCHANGED crashes
    /\ UNCHANGED social /\ UNCHANGED file /\ UNCHANGED walk /\ UNCHANGED history

\* The comment or the repost is there, and the answer is not.
AnswerLost ==
    /\ failures < MaxFailures
    /\ failures' = failures + 1
    /\ \/ /\ pc = "comment"
          /\ Commented
          /\ UNCHANGED reposted
       \/ /\ pc = "repost" /\ Current \notin reposted
          /\ reposted' = reposted \cup {Current}
          /\ UNCHANGED comments
    /\ pc' = "sleep"
    /\ UNCHANGED <<published, crashes>>
    /\ UNCHANGED file /\ UNCHANGED walk /\ UNCHANGED history

Crash ==
    /\ pc # "down"
    /\ crashes < MaxCrashes
    /\ crashes' = crashes + 1
    /\ pc' = "down"
    /\ UNCHANGED failures
    /\ UNCHANGED social /\ UNCHANGED file /\ UNCHANGED walk /\ UNCHANGED history

----------------------------------------------------------------------------

Step ==
    \/ Start \/ PollFails \/ Poll \/ Baseline \/ FetchPage
    \/ SkipOwn \/ (\E d \in Decisions : Decide(d)) \/ Comment \/ Repost \/ RepostRefused
    \/ BatchDone \/ Truncate \/ Write

Next == Publish \/ Step \/ RequestFails \/ AnswerLost \/ Crash

Spec == Init /\ [][Next]_vars

\* The loop of start() never ends, every request has a timeout, and the container
\* is restarted; nobody has to publish, and failures come to an end.
FairSpec == Spec /\ WF_vars(Step)

----------------------------------------------------------------------------
(* Properties                                                                *)

TypeOK ==
    /\ published \in 0..MaxPosts
    /\ comments \in [Posts -> 0..MaxCount]
    /\ reposted \subseteq Posts
    /\ cursor \in 0..published /\ baseline \in 0..published /\ newest \in 0..published
    /\ torn \in BOOLEAN
    /\ pc \in {"down", "sleep", "baseline", "page", "batch", "comment", "repost",
               "truncate", "write"}
    /\ page \in Nat \ {0}
    /\ found \in Seq(Posts)
    /\ next \in 0..Len(found)
    /\ decision \in {"amplify", "criticize", "ignore"}
    /\ handled \subseteq Posts
    /\ failures \in 0..MaxFailures /\ crashes \in 0..MaxCrashes

News == {p \in Posts : baseline < p /\ p <= published /\ p \notin Own}

\* The cursor never passes a post that was not dealt with: a post published while
\* the pages are walked, a failed batch or a kill never makes the persona miss one.
NothingSkipped == \A p \in News : p <= cursor => p \in handled

\* Reactions read in publish order: a post is dealt with for the first time only
\* when every earlier one has been, over retries and restarts.
HandledInOrder == \A p \in handled : \A q \in News : q < p => q \in handled

\* Only news is reacted to: never the backlog a fresh persona finds, never its own
\* posts.  A repost comes with the comment that explains it.
ReactsToNewsOnly ==
    /\ \A p \in Posts : comments[p] > 0 => baseline > 0 /\ p \in News
    /\ \A p \in reposted : comments[p] > 0

\* The persona is a NewsReader: whatever fails, is lost or is killed, it comments on a
\* post or shares it only when every earlier news has been dealt with, not even a
\* retry goes back behind the cursor, and the cursor moves over nothing but posts that
\* have been dealt with.
Reader == INSTANCE NewsReader
    WITH since <- baseline, seen <- cursor, dealt <- handled, shared <- reposted
ReadsInOrder == Reader!Spec

\* A file left empty by a kill, or a repost made by a cycle that did not get to save
\* its cursor.
Wedged == torn \/ \E p \in reposted : p > cursor

\* Failures and restarts that end do not keep the persona from a post for ever, the
\* two wedges apart.
CatchesUp ==
    \A p \in Posts : [](baseline > 0 /\ p \in News => <>(p \in handled \/ []Wedged))

\* The retry of a failed cycle gets there.
RetryGetsThere == \A p \in Posts : (baseline > 0 /\ p \in News) ~> p \in handled
=============================================================================
