----------------------- MODULE InfluencerPollerProofs -----------------------
(***************************************************************************)
(* Theorems about InfluencerPoller, for any feed, page size, decisions, and   *)
(* any number of failures and kills.                                         *)
(*                                                                           *)
(* The argument is about found, the posts one cycle collects.  Pages are       *)
(* windows on a feed that only grows at the front, so a later page may repeat   *)
(* posts of the one before it but never leaves one out: each post of found is   *)
(* at most one below the post before it, and the last one is the first after   *)
(* the cursor.                                                               *)
(***************************************************************************)
EXTENDS InfluencerPoller, SequenceTheorems, TLAPS

\* A cycle that has started to collect posts.
InCycle == pc \in {"page", "batch", "comment", "repost"}

Types ==
    /\ published \in 0..MaxPosts
    /\ comments \in [Posts -> 0..MaxCount]
    /\ reposted \subseteq Posts
    /\ cursor \in 0..published /\ baseline \in 0..cursor /\ newest \in 0..published
    /\ torn \in BOOLEAN
    /\ pc \in {"down", "sleep", "baseline", "page", "batch", "comment", "repost",
               "truncate", "write"}
    /\ page \in Nat \ {0}
    /\ found \in Seq(Posts)
    /\ next \in 0..Len(found)
    /\ decision \in {"amplify", "criticize", "ignore"}
    /\ handled \subseteq Posts
    /\ failures \in 0..MaxFailures /\ crashes \in 0..MaxCrashes

\* What found holds, and that it has no gap.
Gapless(s) == \A i \in 1..(Len(s) - 1) : s[i + 1] >= s[i] - 1

FoundInv ==
    InCycle =>
        /\ cursor > 0
        /\ \A i \in DOMAIN found : cursor < found[i] /\ found[i] <= published
        /\ Gapless(found)

\* The page asked for next begins no later than where found ends.
PageInv ==
    pc = "page" =>
        IF found = <<>> THEN page = 1
        ELSE published - (page - 1) * PageSize >= found[Len(found)] - 1

\* The walk has reached the cursor, and the posts handled so far leave no gap above it.
BatchInv ==
    pc \in {"batch", "comment", "repost"} =>
        /\ found # <<>>
        /\ found[Len(found)] = cursor + 1
        /\ newest = found[1]
        /\ \A j \in DOMAIN found : j > next =>
              \A q \in News : cursor < q /\ q <= found[j] => q \in handled
        /\ pc # "batch" => next > 0 /\ Current \notin Own
        /\ pc = "repost" => comments[Current] > 0

SaveInv ==
    /\ pc = "baseline" => cursor = 0
    /\ pc \in {"truncate", "write"} =>
        /\ newest > 0 /\ newest >= cursor
        /\ cursor > 0 => \A q \in News : q <= newest => q \in handled

HistoryInv ==
    /\ baseline = 0 <=> cursor = 0
    /\ cursor = 0 => handled = {} /\ \A p \in Posts : comments[p] = 0
    /\ \A p \in handled : baseline < p /\ p <= published

Inv ==
    /\ Types
    /\ FoundInv /\ PageInv /\ BatchInv /\ SaveInv /\ HistoryInv
    /\ NothingSkipped /\ HandledInOrder /\ ReactsToNewsOnly

LEMMA InitInv == Init => Inv
  <1> SUFFICES ASSUME Init PROVE Inv
    OBVIOUS
  <1>1. Types
    <2>1. published \in 0..MaxPosts /\ comments \in [Posts -> 0..MaxCount]
      BY PollerAssumption DEF Init, Posts
    <2>2. found \in Seq(Posts) /\ next \in 0..Len(found)
      BY DEF Init
    <2>3. /\ cursor \in 0..published /\ baseline \in 0..cursor /\ newest \in 0..published
          /\ failures \in 0..MaxFailures /\ crashes \in 0..MaxCrashes
      BY <2>1, PollerAssumption DEF Init
    <2>4. page \in Nat \ {0}
      BY DEF Init
    <2>5. torn \in BOOLEAN
      BY Zenon DEF Init
    <2>6. /\ reposted \subseteq Posts /\ handled \subseteq Posts
          /\ pc \in {"down", "sleep", "baseline", "page", "batch", "comment", "repost",
                     "truncate", "write"}
          /\ decision \in {"amplify", "criticize", "ignore"}
      BY DEF Init
    <2> QED BY <2>1, <2>2, <2>3, <2>4, <2>5, <2>6 DEF Types
  <1>2. FoundInv /\ PageInv /\ BatchInv /\ SaveInv /\ HistoryInv
    BY DEF Init, FoundInv, PageInv, BatchInv, SaveInv, HistoryInv, InCycle
  <1>3. NothingSkipped /\ HandledInOrder /\ ReactsToNewsOnly
    BY DEF Init, NothingSkipped, HandledInOrder, ReactsToNewsOnly, News, Posts
  <1> QED BY <1>1, <1>2, <1>3 DEF Inv

\* The newest post the n-th page may hold, if it is positive.
First(n) == published - (n - 1) * PageSize

LEMMA FirstType ==
    ASSUME Types, NEW n \in Nat \ {0}
    PROVE  /\ First(n) \in Int /\ First(n) <= published
           /\ First(n + 1) = First(n) - PageSize
           /\ published \in Nat /\ cursor \in Nat /\ cursor <= published /\ PageSize \in Nat \ {0}
           /\ MaxPosts \in Nat /\ published <= MaxPosts
  <1>1. published \in Nat /\ cursor \in Nat /\ PageSize \in Nat \ {0} /\ cursor <= published
        /\ MaxPosts \in Nat /\ published <= MaxPosts
    BY PollerAssumption DEF Types
  <1>2. PICK m \in Nat : m = n - 1
    OBVIOUS
  <1>3. m * PageSize \in Nat /\ (m + 1) * PageSize = m * PageSize + PageSize
    BY <1>1
  <1>4. First(n) = published - m * PageSize /\ First(n + 1) = published - (m + 1) * PageSize
    BY <1>2 DEF First
  <1> QED BY <1>1, <1>3, <1>4

\* A page is a descending run of published posts.
LEMMA PageFacts ==
    ASSUME Types, NEW n \in Nat \ {0}
    PROVE  /\ FeedPage(n) \in Seq(Posts)
           /\ FeedPage(n) = <<>> <=> First(n) <= 0
           /\ First(n) > 0 => Len(FeedPage(n)) = PageSize \/ Len(FeedPage(n)) = First(n)
           /\ \A i \in DOMAIN FeedPage(n) :
                 FeedPage(n)[i] = First(n) + 1 - i /\ FeedPage(n)[i] <= published
  <1> DEFINE first == First(n)
             size == IF first < PageSize THEN first ELSE PageSize
             posts == FeedPage(n)
  <1>1. posts = [i \in 1..size |-> first + 1 - i]
    BY DEF FeedPage, First
  <1> HIDE DEF first, posts
  <1>2. /\ first \in Int /\ first <= published
        /\ published \in Nat /\ PageSize \in Nat \ {0} /\ MaxPosts \in Nat /\ published <= MaxPosts
    BY FirstType DEF first
  <1>3. CASE first <= 0
    <2>1. 1..size = {}
      BY <1>2, <1>3
    <2>2. posts = <<>>
      BY <1>1, <2>1
    <2> QED BY <1>2, <1>3, <2>2 DEF posts, first
  <1>4. CASE first > 0
    <2>1. size \in Nat \ {0} /\ (size = PageSize \/ size = first)
      BY <1>2, <1>4
    <2>2. \A i \in 1..size : first + 1 - i \in Posts /\ first + 1 - i <= published
      BY <1>2, <2>1 DEF Posts
    <2>3. posts \in Seq(Posts) /\ Len(posts) = size /\ DOMAIN posts = 1..size
      BY <1>1, <2>1, <2>2
    <2>4. posts # <<>>
      BY <2>1, <2>3
    <2> HIDE DEF size
    <2>5. \A i \in DOMAIN posts : posts[i] = first + 1 - i /\ posts[i] <= published
      BY <1>1, <2>2, <2>3
    <2> QED BY <1>2, <1>4, <2>1, <2>3, <2>4, <2>5 DEF posts, first
  <1> QED BY <1>2, <1>3, <1>4

\* The part of a page above the cursor: it is the rest down to the cursor when the
\* page holds the cursor, and the whole page when it does not.
CursorOn(posts) == \E i \in DOMAIN posts : posts[i] = cursor

LEMMA UpToFacts ==
    ASSUME Types, cursor > 0, NEW n \in Nat \ {0}, First(n) >= cursor
    PROVE  /\ FeedPage(n) # <<>>
           /\ UpToCursor(FeedPage(n)) \in Seq(Posts)
           /\ \A i \in DOMAIN UpToCursor(FeedPage(n)) :
                 LET p == UpToCursor(FeedPage(n))[i]
                 IN  p = First(n) + 1 - i /\ cursor < p /\ p <= published
           /\ CursorOn(FeedPage(n)) => Len(UpToCursor(FeedPage(n))) = First(n) - cursor
           /\ ~CursorOn(FeedPage(n)) => Len(UpToCursor(FeedPage(n))) = PageSize
  <1> DEFINE posts == FeedPage(n)
             first == First(n)
             new == UpToCursor(posts)
  <1>1. /\ posts \in Seq(Posts) /\ posts # <<>>
        /\ Len(posts) = PageSize \/ Len(posts) = first
        /\ \A i \in DOMAIN posts : posts[i] = first + 1 - i /\ posts[i] <= published
    <2>1. First(n) > 0 /\ ~(First(n) <= 0)
      BY FirstType
    <2> QED BY <2>1, PageFacts, Zenon
  <1>2. first \in Int /\ cursor \in Nat /\ cursor > 0 /\ first >= cursor /\ PageSize \in Nat
    BY FirstType
  <1> HIDE DEF posts, first
  <1>3. Len(posts) \in Nat \ {0} /\ DOMAIN posts = 1..Len(posts)
    BY <1>1
  <1>4. CASE CursorOn(posts)
    <2> DEFINE k == CHOOSE i \in DOMAIN posts : posts[i] = cursor
    <2>1. k \in DOMAIN posts /\ posts[k] = cursor
      BY <1>4 DEF CursorOn
    <2>2. new = SubSeq(posts, 1, k - 1)
      BY <1>4 DEF UpToCursor, CursorOn
    <2> HIDE DEF k, new
    <2>3. k \in 1..Len(posts) /\ first + 1 - k = cursor
      BY <1>1, <1>3, <2>1
    <2>4. /\ new \in Seq(Posts) /\ Len(new) = k - 1 /\ DOMAIN new = 1..(k - 1)
          /\ \A i \in 1..(k - 1) : new[i] = posts[i]
      BY <1>1, <1>3, <2>2, <2>3
    <2>5. \A i \in 1..(k - 1) : i \in DOMAIN posts /\ cursor < first + 1 - i
      BY <1>2, <1>3, <2>3
    <2>6. Len(new) = first - cursor
      BY <1>2, <1>3, <2>3, <2>4
    <2> QED BY <1>1, <1>4, <2>4, <2>5, <2>6 DEF posts, first, new
  <1>5. CASE ~CursorOn(posts)
    <2>1. new = posts
      BY <1>5 DEF UpToCursor, CursorOn
    <2>2. first + 1 - cursor \notin DOMAIN posts
      <3>1. first + 1 - (first + 1 - cursor) = cursor
        BY <1>2
      <3> QED BY <1>1, <1>5, <3>1 DEF CursorOn
    <2>3. first + 1 - cursor > Len(posts)
      BY <1>2, <1>3, <2>2
    <2>4. Len(posts) = PageSize
      <3>1. first + 1 - cursor <= first
        BY <1>2
      <3>2. Len(posts) # first
        BY <1>2, <2>3, <3>1
      <3> QED BY <1>1, <3>2
    <2>5. \A i \in DOMAIN posts : cursor < first + 1 - i
      BY <1>2, <1>3, <2>3
    <2> QED BY <1>1, <1>5, <2>1, <2>4, <2>5 DEF posts, first, new
  <1> QED BY <1>4, <1>5

----------------------------------------------------------------------------
(* Every step keeps the invariant.                                           *)

LEMMA FoundTypes ==
    ASSUME Types
    PROVE  /\ Len(found) \in Nat /\ DOMAIN found = 1..Len(found)
           /\ found # <<>> <=> Len(found) > 0
           /\ \A i \in DOMAIN found : found[i] \in Posts /\ found[i] \in Nat
  <1>1. found \in Seq(Posts) /\ Posts \subseteq Nat
    BY PollerAssumption DEF Types, Posts
  <1>2. Len(found) \in Nat /\ DOMAIN found = 1..Len(found)
    BY <1>1
  <1>3. found # <<>> <=> Len(found) > 0
    BY <1>1, EmptySeq
  <1>4. \A i \in DOMAIN found : found[i] \in Posts
    BY <1>1, <1>2, ElementOfSeq
  <1> QED BY <1>1, <1>2, <1>3, <1>4

\* The cycle ends, or has not begun: nothing of its walk matters any more.
LEMMA OutsideCycle ==
    ASSUME Inv, Types', pc' \in {"down", "sleep", "baseline"}, pc' = "baseline" => cursor = 0,
           UNCHANGED <<published, cursor, handled, baseline>>,
           HistoryInv', ReactsToNewsOnly'
    PROVE  Inv'
  BY DEF Inv, FoundInv, PageInv, BatchInv, SaveInv, InCycle, NothingSkipped, HandledInOrder, News

LEMMA PublishKeeps ==
    ASSUME Inv, Publish
    PROVE  Inv'
  <1>1. /\ published < MaxPosts /\ published' = published + 1
        /\ UNCHANGED <<comments, reposted, pc, cursor, torn, page, found, next, newest, decision,
                       handled, baseline, failures, crashes>>
    BY DEF Publish, file, walk, history, bounds
  <1>2. /\ published \in Nat /\ cursor \in Nat /\ cursor <= published
        /\ newest \in Nat /\ newest <= published
        /\ MaxPosts \in Nat /\ baseline \in Nat
    BY PollerAssumption DEF Inv, Types
  <1>3. Types'
    BY <1>1, <1>2 DEF Inv, Types
  <1>4. \A p \in Posts : p <= published => (p \in News <=> p \in News')
    BY <1>1, <1>2 DEF News, Posts
  <1>5. FoundInv'
    <2>1. ASSUME NEW i \in DOMAIN found, found[i] <= published PROVE found[i] <= published'
      <3>1. found[i] \in Nat
        BY FoundTypes DEF Inv
      <3> QED BY <1>1, <1>2, <2>1, <3>1
    <2> QED BY <1>1, <2>1 DEF Inv, FoundInv, InCycle, Gapless
  <1>6. PageInv'
    <2>1. CASE pc = "page" /\ found # <<>>
      <3>1. found[Len(found)] \in Nat
        BY <2>1, FoundTypes DEF Inv
      <3>2. First(page) \in Int /\ First(page) >= found[Len(found)] - 1
        BY <2>1, FirstType DEF Inv, Types, PageInv, First
      <3>3. First(page)' = First(page) + 1
        <4>1. PICK m \in Nat : m = (page - 1) * PageSize
          BY FirstType, PollerAssumption DEF Inv, Types
        <4> QED BY <1>1, <1>2, <4>1 DEF First
      <3> QED BY <1>1, <2>1, <3>1, <3>2, <3>3 DEF PageInv, First
    <2> QED BY <1>1, <2>1 DEF Inv, PageInv
  <1>7. BatchInv'
    <2>1. ASSUME pc \in {"batch", "comment", "repost"}, NEW j \in DOMAIN found, j > next,
                 NEW q \in News', cursor < q, q <= found[j]
          PROVE  q \in handled
      <3>1. q \in Nat /\ q \in Posts
        BY <2>1, PollerAssumption DEF News, Posts
      <3>2. found[j] \in Nat
        BY <2>1, FoundTypes DEF Inv
      <3>3. found[j] <= published
        BY <2>1 DEF Inv, FoundInv, InCycle
      <3>4. q \in News
        BY <1>2, <1>4, <2>1, <3>1, <3>2, <3>3
      <3> QED BY <2>1, <3>4 DEF Inv, BatchInv
    <2> QED BY <1>1, <2>1 DEF Inv, BatchInv, Current
  <1>8. SaveInv'
    <2>1. ASSUME pc \in {"truncate", "write"}, cursor > 0, NEW q \in News', q <= newest
          PROVE  q \in handled
      <3>1. q \in News
        BY <1>2, <1>4, <2>1 DEF News, Posts
      <3> QED BY <2>1, <3>1 DEF Inv, SaveInv
    <2> QED BY <1>1, <2>1 DEF Inv, SaveInv
  <1>9. HistoryInv' /\ NothingSkipped' /\ HandledInOrder' /\ ReactsToNewsOnly'
    <2>1. Posts \subseteq Nat /\ handled \subseteq Posts
      BY PollerAssumption DEF Inv, Types, Posts
    <2>2. HistoryInv'
      BY <1>1, <1>2, <2>1 DEF Inv, HistoryInv
    <2>3. NothingSkipped'
      <3>1. ASSUME NEW p \in News', p <= cursor PROVE p \in News
        BY <1>2, <1>4, <2>1, <3>1 DEF News
      <3> QED BY <1>1, <3>1 DEF Inv, NothingSkipped
    <2>4. HandledInOrder'
      <3>1. \A p \in handled : p \in Nat /\ p <= published
        BY <2>1 DEF Inv, HistoryInv
      <3>2. \A p \in handled : \A q \in News' : q < p => q \in News
        BY <1>2, <1>4, <2>1, <3>1 DEF News
      <3> QED BY <1>1, <3>2 DEF Inv, HandledInOrder
    <2>5. ReactsToNewsOnly'
      BY <1>1, <1>2, <2>1 DEF Inv, ReactsToNewsOnly, News
    <2> QED BY <2>2, <2>3, <2>4, <2>5
  <1> QED BY <1>3, <1>5, <1>6, <1>7, <1>8, <1>9 DEF Inv

\* The window the next page shows overlaps found, or joins it.
LEMMA NoGapBefore ==
    ASSUME Inv, pc = "page"
    PROVE  /\ cursor > 0 /\ First(page) >= cursor /\ page \in Nat \ {0}
           /\ found # <<>> => First(page) >= found[Len(found)] - 1 /\ found[Len(found)] > cursor
  <1>1. cursor > 0 /\ page \in Nat \ {0} /\ Types
    BY DEF Inv, FoundInv, InCycle, Types
  <1>2. CASE found = <<>>
    <2>1. First(page) = published
      BY <1>1, <1>2, FirstType, PollerAssumption DEF Inv, PageInv, First
    <2> QED BY <1>1, <1>2, <2>1, FirstType
  <1>3. CASE found # <<>>
    <2>1. Len(found) \in DOMAIN found
      BY <1>1, <1>3, FoundTypes
    <2>2. found[Len(found)] > cursor /\ found[Len(found)] \in Nat
      BY <1>1, <2>1, FoundTypes DEF Inv, FoundInv, InCycle
    <2>3. First(page) >= found[Len(found)] - 1
      BY <1>3 DEF Inv, PageInv, First
    <2> QED BY <1>1, <1>3, <2>2, <2>3, FirstType
  <1> QED BY <1>2, <1>3

\* Appending the part of the next page above the cursor leaves no gap.
LEMMA WalkFacts ==
    ASSUME Inv, pc = "page", NEW more, more = found \o UpToCursor(FeedPage(page))
    PROVE  /\ more \in Seq(Posts) /\ Len(more) \in Nat
           /\ \A i \in DOMAIN more : cursor < more[i] /\ more[i] <= published
           /\ Gapless(more)
           /\ CursorOn(FeedPage(page)) => more = <<>> \/ more[Len(more)] = cursor + 1
           /\ ~CursorOn(FeedPage(page)) =>
                 more # <<>> /\ First(page + 1) >= more[Len(more)] - 1
  <1> DEFINE new == UpToCursor(FeedPage(page))
             f == First(page)
             n == Len(found)
  <1>1. /\ Types /\ cursor > 0 /\ f >= cursor /\ page \in Nat \ {0}
        /\ found # <<>> => f >= found[n] - 1 /\ found[n] > cursor
    BY NoGapBefore DEF Inv
  <1>2. /\ new \in Seq(Posts)
        /\ \A i \in DOMAIN new : new[i] = f + 1 - i /\ cursor < new[i] /\ new[i] <= published
        /\ CursorOn(FeedPage(page)) => Len(new) = f - cursor
        /\ ~CursorOn(FeedPage(page)) => Len(new) = PageSize
    BY <1>1, UpToFacts
  <1>3. /\ f \in Int /\ cursor \in Nat /\ PageSize \in Nat \ {0} /\ First(page + 1) = f - PageSize
        /\ published \in Nat
    BY <1>1, FirstType
  <1> HIDE DEF new, f
  <1>4. /\ n \in Nat /\ DOMAIN found = 1..n /\ (found # <<>> <=> n > 0) /\ found \in Seq(Posts)
        /\ \A i \in 1..n : found[i] \in Nat /\ cursor < found[i] /\ found[i] <= published
        /\ \A i \in 1..(n - 1) : found[i + 1] >= found[i] - 1
    BY <1>1, FoundTypes DEF Inv, FoundInv, InCycle, Gapless, Types
  <1>5. Len(new) \in Nat /\ DOMAIN new = 1..Len(new)
    BY <1>2
  <1> DEFINE k == Len(new)
  <1> HIDE DEF n, k
  <1>6. k \in Nat /\ n \in Nat
    BY <1>4, <1>5 DEF k
  <1>7. /\ more \in Seq(Posts) /\ Len(more) = n + k /\ DOMAIN more = 1..(n + k)
        /\ \A i \in 1..n : more[i] = found[i]
        /\ \A i \in 1..k : more[n + i] = new[i]
    BY <1>2, <1>4, <1>5 DEF n, k, new
  <1>8. \A i \in 1..k : more[n + i] = f + 1 - i /\ cursor < f + 1 - i /\ f + 1 - i <= published
    BY <1>2, <1>5, <1>7 DEF k
  <1>9. \A j \in (n + 1)..(n + k) : /\ more[j] = f + 1 + n - j
                                   /\ cursor < more[j] /\ more[j] <= published
    <2> SUFFICES ASSUME NEW j \in (n + 1)..(n + k)
                 PROVE  more[j] = f + 1 + n - j /\ cursor < more[j] /\ more[j] <= published
      OBVIOUS
    <2>1. PICK i \in 1..k : j = n + i
      <3>1. j - n \in 1..k /\ j = n + (j - n)
        BY <1>6
      <3> QED BY <3>1
    <2>2. more[j] = f + 1 - i /\ cursor < f + 1 - i /\ f + 1 - i <= published
      BY <1>8, <2>1
    <2>3. f + 1 - i = f + 1 + n - j
      BY <1>3, <1>6, <2>1
    <2> QED BY <2>2, <2>3
  <1>10. \A i \in DOMAIN more : cursor < more[i] /\ more[i] <= published
    <2> SUFFICES ASSUME NEW i \in 1..(n + k) PROVE cursor < more[i] /\ more[i] <= published
      BY <1>7
    <2>1. CASE i <= n
      BY <1>4, <1>6, <1>7, <2>1
    <2>2. CASE i > n
      <3>1. i \in (n + 1)..(n + k)
        BY <1>6, <2>2
      <3> QED BY <1>9, <3>1
    <2>3. i <= n \/ i > n
      BY <1>6
    <2> QED BY <2>1, <2>2, <2>3
  <1>11. Gapless(more)
    <2> SUFFICES ASSUME NEW i \in 1..(n + k - 1) PROVE more[i + 1] >= more[i] - 1
      BY <1>6, <1>7 DEF Gapless
    <2>1. CASE i < n
      <3>1. i \in 1..(n - 1) /\ i \in 1..n /\ i + 1 \in 1..n
        BY <1>6, <2>1
      <3> QED BY <1>4, <1>7, <3>1
    <2>2. CASE i >= n
      <3>1. i + 1 \in (n + 1)..(n + k)
        BY <1>6, <2>2
      <3>2. more[i + 1] = f + n - i
        <4>1. more[i + 1] = f + 1 + n - (i + 1)
          BY <1>9, <3>1
        <4> QED BY <1>3, <1>6, <4>1
      <3>3. CASE i = n
        <4>1. n \in 1..n /\ more[n] = found[n] /\ found[n] \in Nat /\ f >= found[n] - 1
          <5>1. n \in 1..n
            BY <1>6, <3>3
          <5> QED BY <1>1, <1>4, <1>7, <5>1
        <4> QED BY <1>3, <1>6, <3>2, <3>3, <4>1
      <3>4. CASE i > n
        <4>1. i \in (n + 1)..(n + k)
          BY <1>6, <3>4
        <4>2. more[i] = f + 1 + n - i
          BY <1>9, <4>1
        <4> QED BY <1>3, <1>6, <3>2, <4>2
      <3>5. i = n \/ i > n
        BY <1>6, <2>2
      <3> QED BY <3>3, <3>4, <3>5
    <2>3. i < n \/ i >= n
      BY <1>6
    <2> QED BY <2>1, <2>2, <2>3
  <1>12. ASSUME CursorOn(FeedPage(page)), more # <<>> PROVE more[Len(more)] = cursor + 1
    <2>1. k = f - cursor
      BY <1>2, <1>12 DEF k
    <2>2. CASE k > 0
      <3>1. n + k \in (n + 1)..(n + k) /\ Len(more) = n + k
        BY <1>6, <1>7, <2>2
      <3>2. more[n + k] = f + 1 + n - (n + k)
        BY <1>9, <3>1
      <3> QED BY <1>3, <1>6, <2>1, <3>1, <3>2
    <2>3. CASE k = 0
      <3>1. Len(more) = n /\ n > 0
        <4>1. Len(more) = n
          BY <1>6, <1>7, <2>3
        <4>2. Len(more) # 0
          BY <1>7, <1>12, EmptySeq
        <4> QED BY <1>6, <4>1, <4>2
      <3>2. n \in 1..n /\ more[n] = found[n] /\ found[n] \in Nat
        <4>1. n \in 1..n
          BY <1>6, <3>1
        <4> QED BY <1>4, <1>7, <4>1
      <3>3. f >= found[n] - 1 /\ found[n] > cursor /\ f = cursor
        BY <1>1, <1>3, <1>4, <2>1, <2>3, <3>1
      <3> QED BY <1>3, <3>1, <3>2, <3>3
    <2>4. k > 0 \/ k = 0
      BY <1>6
    <2> QED BY <2>2, <2>3, <2>4
  <1>13. ASSUME ~CursorOn(FeedPage(page))
         PROVE  more # <<>> /\ First(page + 1) >= more[Len(more)] - 1
    <2>1. k = PageSize /\ n + k \in (n + 1)..(n + k) /\ Len(more) = n + k
      BY <1>2, <1>3, <1>6, <1>7, <1>13 DEF k
    <2>2. more[n + k] = f + 1 + n - (n + k)
      BY <1>9, <2>1
    <2>3. more # <<>>
      BY <1>3, <1>6, <2>1
    <2> QED BY <1>3, <1>6, <2>1, <2>2, <2>3
  <1> QED BY <1>6, <1>7, <1>10, <1>11, <1>12, <1>13

LEMMA FetchKeeps ==
    ASSUME Inv, FetchPage
    PROVE  Inv'
  <1>1. /\ pc = "page" /\ found' = found \o UpToCursor(FeedPage(page)) /\ page \in Nat \ {0}
        /\ UNCHANGED <<published, comments, reposted, cursor, torn, handled, baseline, decision,
                       failures, crashes>>
    BY DEF FetchPage, social, file, history, bounds, Inv, Types
  <1>2. FeedPage(page) # <<>> /\ Types
    BY NoGapBefore, UpToFacts, <1>1 DEF Inv
  <1>3. /\ found' \in Seq(Posts) /\ Len(found') \in Nat
        /\ \A i \in DOMAIN found' : cursor < found'[i] /\ found'[i] <= published
        /\ Gapless(found')
        /\ CursorOn(FeedPage(page)) => found' = <<>> \/ found'[Len(found')] = cursor + 1
        /\ ~CursorOn(FeedPage(page)) => found' # <<>> /\ First(page + 1) >= found'[Len(found')] - 1
    BY <1>1, WalkFacts
  <1>4. News' = News /\ NothingSkipped' /\ HandledInOrder' /\ ReactsToNewsOnly' /\ HistoryInv'
    BY <1>1 DEF Inv, News, NothingSkipped, HandledInOrder, ReactsToNewsOnly, HistoryInv
  <1>5. cursor > 0
    BY <1>1 DEF Inv, FoundInv, InCycle
  <1>6. CASE CursorOn(FeedPage(page)) /\ found' = <<>>
    <2>1. pc' = "sleep" /\ next' = Len(found') /\ newest' = newest /\ page' = page
      BY <1>1, <1>2, <1>6 DEF FetchPage, CursorOn
    <2>2. Types'
      BY <1>1, <1>2, <1>3, <2>1 DEF Types
    <2> QED BY <1>1, <1>4, <2>1, <2>2, OutsideCycle
  <1>7. CASE CursorOn(FeedPage(page)) /\ found' # <<>>
    <2>1. pc' = "batch" /\ next' = Len(found') /\ newest' = found'[1] /\ page' = page
      BY <1>1, <1>2, <1>7 DEF FetchPage, CursorOn
    <2>2. DOMAIN found' = 1..Len(found') /\ 1 \in DOMAIN found' /\ found'[1] \in Posts
      BY <1>3, <1>7, ElementOfSeq, EmptySeq
    <2>3. newest' \in 0..published
      BY <1>3, <2>1, <2>2, PollerAssumption DEF Posts
    <2>4. next' \in 0..Len(found')
      BY <1>3, <2>1
    <2>5. Types'
      BY <1>1, <1>2, <1>3, <2>1, <2>3, <2>4 DEF Types
    <2>6. FoundInv' /\ PageInv' /\ SaveInv'
      BY <1>1, <1>3, <1>5, <2>1 DEF FoundInv, PageInv, SaveInv, InCycle
    <2>7. BatchInv'
      <3>1. \A j \in DOMAIN found' : ~(j > next')
        BY <1>3, <2>1, <2>2
      <3> QED BY <1>1, <1>3, <1>7, <2>1, <3>1 DEF BatchInv
    <2> QED BY <1>4, <2>5, <2>6, <2>7 DEF Inv
  <1>8. CASE ~CursorOn(FeedPage(page))
    <2>1. pc' = "page" /\ page' = page + 1 /\ next' = next /\ newest' = newest
      BY <1>1, <1>2, <1>8 DEF FetchPage, CursorOn
    <2>2. next' \in 0..Len(found')
      <3>1. Len(found') >= Len(found) /\ Len(found) \in Nat
        <4>1. UpToCursor(FeedPage(page)) \in Seq(Posts) /\ found \in Seq(Posts)
          BY <1>1, <1>2, NoGapBefore, UpToFacts DEF Types
        <4> QED BY <1>1, <4>1
      <3> QED BY <1>2, <1>3, <2>1, <3>1 DEF Types
    <2>3. Types'
      BY <1>1, <1>2, <1>3, <2>1, <2>2 DEF Types
    <2>4. FoundInv' /\ BatchInv' /\ SaveInv'
      BY <1>1, <1>3, <1>5, <2>1 DEF FoundInv, BatchInv, SaveInv, InCycle
    <2>5. PageInv'
      BY <1>1, <1>3, <1>8, <2>1 DEF PageInv, First
    <2> QED BY <1>4, <2>3, <2>4, <2>5 DEF Inv
  <1> QED BY <1>6, <1>7, <1>8

\* Everything below the post that is handled next has been handled.
LEMMA CoveredBelow ==
    ASSUME Inv, pc \in {"batch", "comment", "repost"}, next > 0
    PROVE  /\ next \in DOMAIN found /\ next \in Nat /\ Current \in Posts /\ Current \in Nat
           /\ baseline <= cursor /\ 0 < cursor /\ cursor < Current /\ Current <= published
           /\ baseline > 0 /\ published \in Nat /\ baseline \in Nat /\ cursor \in Nat
           /\ \A q \in News : q < Current => q \in handled
  <1>1. next \in DOMAIN found /\ next \in Nat
    BY FoundTypes DEF Inv, Types
  <1>2. Current \in Posts /\ Current \in Nat /\ cursor < Current /\ Current <= published
    BY <1>1, FoundTypes DEF Inv, FoundInv, InCycle, Current
  <1>3. baseline <= cursor /\ 0 < cursor /\ baseline > 0 /\ baseline \in Nat /\ cursor \in Nat
        /\ published \in Nat
    BY PollerAssumption DEF Inv, Types, FoundInv, InCycle, HistoryInv
  <1>4. ASSUME NEW q \in News, q < Current PROVE q \in handled
    <2>1. q \in Nat
      BY PollerAssumption DEF News, Posts
    <2>2. CASE q <= cursor
      BY <2>2 DEF Inv, NothingSkipped
    <2>3. CASE cursor < q
      <3>1. next # Len(found)
        BY <1>2, <1>3, <1>4, <2>1, <2>3 DEF Inv, BatchInv, Current
      <3>2. /\ next \in 1..(Len(found) - 1) /\ next + 1 \in DOMAIN found /\ next + 1 > next
        BY <1>1, <3>1, FoundTypes DEF Inv
      <3>3. found[next + 1] >= found[next] - 1 /\ found[next + 1] \in Nat
        BY <3>2, FoundTypes DEF Inv, FoundInv, InCycle, Gapless
      <3>4. q <= found[next + 1]
        BY <1>2, <1>4, <2>1, <3>3 DEF Current
      <3> QED BY <2>3, <3>2, <3>4 DEF Inv, BatchInv
    <2> QED BY <1>3, <2>1, <2>2, <2>3
  <1> QED BY <1>1, <1>2, <1>3, <1>4

\* The batch goes on to the next post: the one left behind is handled, or not news.
LEMMA NextPost ==
    ASSUME Inv, Types', pc \in {"batch", "comment", "repost"}, next > 0,
           pc' = "batch", next' = next - 1,
           UNCHANGED <<found, newest, published, cursor, baseline>>,
           \/ handled' = handled /\ Current \in Own
           \/ handled' = handled \cup {Current} /\ Current \notin Own,
           ReactsToNewsOnly'
    PROVE  Inv'
  <1>1. News' = News /\ handled \subseteq handled' /\ (Current \in News => Current \in handled')
    BY DEF News
  <1>2. FoundInv' /\ PageInv' /\ SaveInv'
    BY DEF Inv, FoundInv, PageInv, SaveInv, InCycle
  <1>3. BatchInv'
    <2>1. ASSUME NEW j \in DOMAIN found, j > next - 1, NEW q \in News, cursor < q, q <= found[j]
          PROVE  q \in handled'
      <3>1. CASE j = next
        <4>1. q < Current \/ q = Current
          BY <2>1, <3>1, CoveredBelow, PollerAssumption DEF Current, News, Posts
        <4> QED BY <1>1, <4>1, CoveredBelow
      <3>2. CASE j # next
        <4>1. j > next
          BY <2>1, <3>2, CoveredBelow, FoundTypes DEF Inv
        <4> QED BY <1>1, <2>1, <4>1 DEF Inv, BatchInv
      <3> QED BY <3>1, <3>2
    <2> QED BY <1>1, <2>1 DEF Inv, BatchInv
  <1>4. NothingSkipped'
    BY <1>1 DEF Inv, NothingSkipped
  <1>5. HandledInOrder'
    BY <1>1, CoveredBelow DEF Inv, HandledInOrder
  <1>6. HistoryInv'
    BY CoveredBelow DEF Inv, HistoryInv
  <1> QED BY <1>2, <1>3, <1>4, <1>5, <1>6 DEF Inv

\* A post whose comment is about to be published is news.
LEMMA CurrentIsNews ==
    ASSUME Inv, pc \in {"comment", "repost"}
    PROVE  /\ next > 0 /\ next \in DOMAIN found /\ next \in Nat
           /\ Current \in News /\ baseline > 0 /\ Current \notin Own
           /\ pc = "repost" => comments[Current] > 0
           /\ next - 1 \in 0..Len(found)
  <1>1. next > 0 /\ Current \notin Own /\ (pc = "repost" => comments[Current] > 0)
    BY DEF Inv, BatchInv
  <1>2. /\ next \in DOMAIN found /\ next \in Nat /\ Current \in Posts /\ baseline > 0
        /\ baseline < Current /\ Current <= published
    BY <1>1, CoveredBelow
  <1>3. next - 1 \in 0..Len(found)
    BY <1>2, FoundTypes DEF Inv
  <1> QED BY <1>1, <1>2, <1>3 DEF News

\* One more comment of the post that is handled.
LEMMA CommentFacts ==
    ASSUME Inv, pc = "comment", Commented
    PROVE  /\ comments' \in [Posts -> 0..MaxCount]
           /\ comments'[Current] > 0
           /\ \A p \in Posts : comments'[p] > 0 => comments[p] > 0 \/ p = Current
           /\ \A p \in Posts : comments[p] > 0 => comments'[p] > 0
  <1>1. Current \in Posts
    BY CurrentIsNews DEF News
  <1>2. MaxCount \in Nat \ {0} /\ comments \in [Posts -> 0..MaxCount]
    BY PollerAssumption DEF Inv, Types
  <1>3. \A p \in Posts : comments[p] \in 0..MaxCount
    BY <1>2
  <1>4. /\ comments' = [comments EXCEPT ![Current] =
              IF comments[Current] < MaxCount THEN comments[Current] + 1 ELSE comments[Current]]
    BY DEF Commented
  <1>5. /\ comments'[Current] = IF comments[Current] < MaxCount THEN comments[Current] + 1
                                ELSE comments[Current]
        /\ \A p \in Posts \ {Current} : comments'[p] = comments[p]
    BY <1>1, <1>2, <1>4
  <1>6. comments'[Current] > 0 /\ comments'[Current] \in 0..MaxCount
    BY <1>1, <1>2, <1>3, <1>5
  <1>7. comments' \in [Posts -> 0..MaxCount]
    BY <1>2, <1>4, <1>5, <1>6
  <1> QED BY <1>5, <1>6, <1>7

LEMMA CommentReacts ==
    ASSUME Inv, pc = "comment", Commented, UNCHANGED <<published, baseline, reposted>>
    PROVE  ReactsToNewsOnly'
  <1>1. News' = News /\ Current \in News /\ baseline > 0
    BY CurrentIsNews DEF News
  <1>2. reposted \subseteq Posts
    BY DEF Inv, Types
  <1> QED BY <1>1, <1>2, CommentFacts DEF Inv, ReactsToNewsOnly

LEMMA HistoryKept ==
    ASSUME Inv, cursor > 0, UNCHANGED <<published, cursor, baseline, handled>>
    PROVE  HistoryInv'
  BY DEF Inv, HistoryInv

LEMMA CommentKeeps ==
    ASSUME Inv, Comment
    PROVE  Inv'
  <1>1. /\ pc = "comment" /\ Commented
        /\ UNCHANGED <<published, reposted, cursor, torn, failures, crashes>>
    BY DEF Comment, file, bounds
  <1>2. CASE decision = "amplify"
    <2>1. pc' = "repost" /\ UNCHANGED <<page, found, next, newest, decision, handled, baseline>>
      BY <1>2 DEF Comment, walk, history
    <2>2. Types'
      BY <1>1, <2>1, CommentFacts DEF Inv, Types
    <2>3. cursor > 0
      BY <1>1 DEF Inv, FoundInv, InCycle
    <2>4. News' = News /\ Current' = Current /\ comments'[Current] > 0
      BY <1>1, <2>1, CommentFacts DEF News, Current
    <2>5. FoundInv' /\ PageInv' /\ BatchInv' /\ SaveInv'
      BY <1>1, <2>1, <2>4 DEF Inv, FoundInv, PageInv, BatchInv, SaveInv, InCycle
    <2>6. HistoryInv' /\ ReactsToNewsOnly' /\ NothingSkipped' /\ HandledInOrder'
      BY <1>1, <2>1, <2>3, <2>4, HistoryKept, CommentReacts DEF Inv, NothingSkipped, HandledInOrder
    <2> QED BY <2>2, <2>5, <2>6 DEF Inv
  <1>3. CASE decision # "amplify"
    <2>1. /\ pc' = "batch" /\ next' = next - 1 /\ handled' = handled \cup {Current}
          /\ UNCHANGED <<page, found, newest, decision, baseline>>
      BY <1>3 DEF Comment, Done
    <2>2. Types'
      BY <1>1, <2>1, CommentFacts, CurrentIsNews DEF Inv, Types, News
    <2>3. ReactsToNewsOnly' /\ next > 0 /\ Current \notin Own
      BY <1>1, <2>1, CommentReacts, CurrentIsNews
    <2> QED BY <1>1, <2>1, <2>2, <2>3, NextPost
  <1> QED BY <1>2, <1>3

LEMMA RepostKeeps ==
    ASSUME Inv, Repost
    PROVE  Inv'
  <1>1. /\ pc = "repost" /\ reposted' = reposted \cup {Current}
        /\ pc' = "batch" /\ next' = next - 1 /\ handled' = handled \cup {Current}
        /\ UNCHANGED <<page, found, newest, decision, baseline>>
        /\ UNCHANGED <<published, comments, cursor, torn, failures, crashes>>
    BY DEF Repost, Done, file, bounds
  <1>2. Types'
    BY <1>1, CurrentIsNews DEF Inv, Types, News
  <1>3. ReactsToNewsOnly'
    BY <1>1, CurrentIsNews DEF Inv, ReactsToNewsOnly, News
  <1> QED BY <1>1, <1>2, <1>3, CurrentIsNews, NextPost

LEMMA SkipKeeps ==
    ASSUME Inv, SkipOwn \/ (\E d \in Decisions : Decide(d))
    PROVE  Inv'
  <1>1. /\ pc = "batch" /\ next > 0
        /\ UNCHANGED <<published, comments, reposted, cursor, torn, page, found, newest, baseline,
                       failures, crashes>>
    BY DEF SkipOwn, Decide, Batch, Done, social, file, history, bounds
  <1>2. next - 1 \in 0..Len(found) /\ Current \in Posts
    BY <1>1, CoveredBelow, FoundTypes DEF Inv
  <1>3. News' = News /\ ReactsToNewsOnly'
    BY <1>1 DEF Inv, ReactsToNewsOnly, News
  <1>4. CASE /\ pc' = "batch" /\ next' = next - 1 /\ decision' = decision
             /\ \/ handled' = handled /\ Current \in Own
                \/ handled' = handled \cup {Current} /\ Current \notin Own
    <2>1. Types'
      BY <1>1, <1>2, <1>4 DEF Inv, Types
    <2> QED BY <1>1, <1>3, <1>4, <2>1, NextPost
  <1>5. CASE /\ pc' = "comment" /\ decision' \in Decisions /\ Current \notin Own
             /\ next' = next /\ handled' = handled
    <2>1. Types'
      BY <1>1, <1>5, PollerAssumption DEF Inv, Types
    <2>2. FoundInv' /\ PageInv' /\ BatchInv' /\ SaveInv'
      BY <1>1, <1>3, <1>5 DEF Inv, FoundInv, PageInv, BatchInv, SaveInv, InCycle, Current
    <2>3. HistoryInv' /\ NothingSkipped' /\ HandledInOrder'
      BY <1>1, <1>3, <1>5 DEF Inv, HistoryInv, NothingSkipped, HandledInOrder
    <2> QED BY <1>3, <2>1, <2>2, <2>3 DEF Inv
  <1>6. CASE SkipOwn
    BY <1>1, <1>4, <1>6 DEF SkipOwn, history
  <1>7. ASSUME NEW d \in Decisions, Decide(d) PROVE Inv'
    <2>1. CASE d = "ignore"
      BY <1>4, <1>7, <2>1 DEF Decide, Done
    <2>2. CASE d # "ignore"
      BY <1>5, <1>7, <2>2 DEF Decide, history
    <2> QED BY <2>1, <2>2
  <1> QED BY <1>6, <1>7

LEMMA EndsKeep ==
    ASSUME Inv, Start \/ Poll \/ Baseline \/ RepostRefused \/ RequestFails \/ Crash
    PROVE  Inv'
  <1>1. UNCHANGED <<published, comments, reposted, cursor, torn, handled, baseline>>
    BY DEF Start, Poll, Baseline, RepostRefused, RequestFails, Crash, social, file, history
  <1>2. News' = News /\ ReactsToNewsOnly' /\ HistoryInv' /\ NothingSkipped' /\ HandledInOrder'
    BY <1>1 DEF Inv, ReactsToNewsOnly, News, HistoryInv, NothingSkipped, HandledInOrder
  <1>3. CASE Start \/ RepostRefused
    <2>1. /\ pc' = "sleep"
          /\ UNCHANGED <<page, found, next, newest, decision, failures, crashes>>
      BY <1>3 DEF Start, RepostRefused, walk, bounds
    <2>2. Types'
      BY <1>1, <2>1 DEF Inv, Types
    <2> QED BY <1>1, <1>2, <2>1, <2>2, OutsideCycle
  <1>4. CASE Poll
    <2>1. /\ pc' = IF cursor = 0 THEN "baseline" ELSE "page"
          /\ page' = 1 /\ found' = <<>> /\ next' = 0
          /\ UNCHANGED <<newest, decision, failures, crashes>>
      BY <1>4 DEF Poll, bounds
    <2>2. Types'
      <3>1. found' \in Seq(Posts) /\ next' \in 0..Len(found')
        BY <2>1
      <3> QED BY <1>1, <2>1, <3>1 DEF Inv, Types
    <2>3. CASE cursor = 0
      BY <1>1, <1>2, <2>1, <2>2, <2>3, OutsideCycle
    <2>4. CASE cursor # 0
      <3>1. cursor > 0 /\ pc' = "page"
        BY <2>1, <2>4, PollerAssumption DEF Inv, Types
      <3>2. Gapless(found') /\ DOMAIN found' = {}
        BY <2>1 DEF Gapless
      <3>3. FoundInv' /\ PageInv' /\ BatchInv' /\ SaveInv'
        BY <1>1, <2>1, <3>1, <3>2 DEF FoundInv, PageInv, BatchInv, SaveInv, InCycle
      <3> QED BY <1>2, <2>2, <3>3 DEF Inv
    <2> QED BY <2>3, <2>4
  <1>5. CASE Baseline
    <2>1. /\ pc = "baseline"
          /\ pc' = IF FeedPage(1) = <<>> THEN "sleep" ELSE "truncate"
          /\ newest' = IF FeedPage(1) = <<>> THEN newest ELSE FeedPage(1)[1]
          /\ UNCHANGED <<page, found, next, decision, failures, crashes>>
      BY <1>5 DEF Baseline, bounds
    <2>2. CASE FeedPage(1) = <<>>
      <3>1. Types'
        BY <1>1, <2>1, <2>2 DEF Inv, Types
      <3> QED BY <1>1, <1>2, <2>1, <2>2, <3>1, OutsideCycle
    <2>3. CASE FeedPage(1) # <<>>
      <3>1. First(1) = published /\ published \in Nat /\ cursor \in Nat /\ cursor <= published
        BY FirstType, PollerAssumption DEF First, Inv
      <3>2. 1 \in DOMAIN FeedPage(1) /\ published > 0
        BY <2>3, <3>1, PageFacts, EmptySeq DEF Inv
      <3>3. newest' = published
        BY <2>1, <2>3, <3>1, <3>2, PageFacts DEF Inv
      <3>4. Types'
        BY <1>1, <2>1, <2>3, <3>1, <3>3 DEF Inv, Types
      <3>5. FoundInv' /\ PageInv' /\ BatchInv'
        BY <2>1, <2>3 DEF FoundInv, PageInv, BatchInv, InCycle
      <3>6. SaveInv'
        <4>1. cursor' = 0
          BY <1>1, <2>1 DEF Inv, SaveInv
        <4> QED BY <1>1, <2>1, <2>3, <3>1, <3>2, <3>3, <4>1 DEF SaveInv
      <3> QED BY <1>2, <3>4, <3>5, <3>6 DEF Inv
    <2> QED BY <2>2, <2>3
  <1>6. CASE RequestFails \/ Crash
    <2>1. /\ pc' \in {"sleep", "down"}
          /\ UNCHANGED <<page, found, next, newest, decision>>
          /\ failures' \in 0..MaxFailures /\ crashes' \in 0..MaxCrashes
      BY <1>6, PollerAssumption DEF RequestFails, Crash, walk, Inv, Types
    <2>2. Types'
      BY <1>1, <2>1 DEF Inv, Types
    <2> QED BY <1>1, <1>2, <2>1, <2>2, OutsideCycle
  <1> QED BY <1>3, <1>4, <1>5, <1>6

LEMMA LostKeeps ==
    ASSUME Inv, AnswerLost
    PROVE  Inv'
  <1>1. /\ pc' = "sleep" /\ failures' \in 0..MaxFailures /\ crashes' = crashes
        /\ UNCHANGED <<published, cursor, torn, page, found, next, newest, decision, handled, baseline>>
    BY PollerAssumption DEF AnswerLost, file, walk, history, Inv, Types
  <1>2. pc \in {"comment", "repost"} /\ cursor > 0
    BY DEF AnswerLost, Inv, FoundInv, InCycle
  <1>3. CASE pc = "comment"
    <2>1. Commented /\ reposted' = reposted
      BY <1>3 DEF AnswerLost
    <2>2. Types'
      BY <1>1, <1>3, <2>1, CommentFacts DEF Inv, Types
    <2> QED BY <1>1, <1>2, <1>3, <2>1, <2>2, CommentReacts, HistoryKept, OutsideCycle
  <1>4. CASE pc = "repost"
    <2>1. reposted' = reposted \cup {Current} /\ comments' = comments
      BY <1>4 DEF AnswerLost
    <2>2. Types'
      BY <1>1, <1>4, <2>1, CurrentIsNews DEF Inv, Types, News
    <2>3. ReactsToNewsOnly'
      BY <1>1, <1>4, <2>1, CurrentIsNews DEF Inv, ReactsToNewsOnly, News
    <2> QED BY <1>1, <1>2, <2>2, <2>3, HistoryKept, OutsideCycle
  <1> QED BY <1>2, <1>3, <1>4

\* The batch is done and the file is written: the cursor moves over posts that have
\* all been handled.
LEMMA SaveKeeps ==
    ASSUME Inv, BatchDone \/ Truncate \/ Write
    PROVE  Inv'
  <1>1. UNCHANGED <<published, comments, reposted, page, found, next, newest, decision, handled,
                    failures, crashes>>
    BY DEF BatchDone, Truncate, Write, social, walk, history, bounds
  <1>2. CASE BatchDone \/ Truncate
    <2>1. /\ UNCHANGED <<cursor, baseline>>
          /\ \/ pc = "batch" /\ next = 0 /\ pc' = "truncate" /\ torn' = torn
             \/ pc = "truncate" /\ pc' = "write" /\ torn' = TRUE
      BY <1>2 DEF BatchDone, Truncate, file, history
    <2>2. torn' \in BOOLEAN
      BY <2>1, Zenon DEF Inv, Types
    <2>3. Types'
      BY <1>1, <2>1, <2>2 DEF Inv, Types
    <2>4. News' = News /\ ReactsToNewsOnly' /\ HistoryInv' /\ NothingSkipped' /\ HandledInOrder'
      BY <1>1, <2>1 DEF Inv, ReactsToNewsOnly, News, HistoryInv, NothingSkipped, HandledInOrder
    <2>5. FoundInv' /\ PageInv' /\ BatchInv'
      BY <2>1 DEF FoundInv, PageInv, BatchInv, InCycle
    <2>6. SaveInv'
      <3>1. CASE pc = "batch"
        <4>1. /\ newest = found[1] /\ 1 \in DOMAIN found /\ 1 > next /\ cursor > 0
          BY <2>1, <3>1, FoundTypes DEF Inv, BatchInv, FoundInv, InCycle
        <4>2. cursor < newest /\ newest \in Nat /\ cursor \in Nat
          BY <3>1, <4>1, FoundTypes, FirstType DEF Inv, FoundInv, InCycle, Types
        <4>3. ASSUME NEW q \in News, q <= newest PROVE q \in handled
          <5>1. q \in Nat
            BY PollerAssumption DEF News, Posts
          <5>2. CASE q <= cursor
            BY <5>2 DEF Inv, NothingSkipped
          <5>3. CASE cursor < q
            BY <3>1, <4>1, <4>3, <5>3 DEF Inv, BatchInv
          <5> QED BY <4>2, <5>1, <5>2, <5>3
        <4> QED BY <1>1, <2>1, <2>4, <4>2, <4>3 DEF SaveInv
      <3>2. CASE pc = "truncate"
        BY <1>1, <2>1, <2>4, <3>2 DEF Inv, SaveInv
      <3> QED BY <2>1, <3>1, <3>2
    <2> QED BY <2>3, <2>4, <2>5, <2>6 DEF Inv
  <1>3. CASE Write
    <2>1. /\ pc = "write" /\ pc' = "sleep" /\ cursor' = newest /\ torn' = FALSE
          /\ baseline' = IF baseline = 0 THEN newest ELSE baseline
      BY <1>3 DEF Write
    <2>2. /\ newest \in Nat /\ newest > 0 /\ newest <= published /\ newest >= cursor
          /\ cursor \in Nat /\ baseline \in Nat /\ baseline <= cursor /\ published \in Nat
          /\ baseline = 0 <=> cursor = 0
          /\ handled \subseteq Posts /\ Posts \subseteq Nat
      BY <2>1, PollerAssumption DEF Inv, Types, SaveInv, HistoryInv, Posts
    <2>3. torn' \in BOOLEAN
      BY <2>1, Zenon
    <2>4. Types'
      BY <1>1, <2>1, <2>2, <2>3 DEF Inv, Types
    <2>5. FoundInv' /\ PageInv' /\ BatchInv' /\ SaveInv'
      BY <2>1 DEF FoundInv, PageInv, BatchInv, SaveInv, InCycle
    <2>6. CASE cursor = 0
      <3>1. /\ baseline' = newest /\ handled = {} /\ \A p \in Posts : comments[p] = 0
        BY <2>1, <2>2, <2>6 DEF Inv, HistoryInv
      <3>2. reposted = {}
        BY <3>1 DEF Inv, ReactsToNewsOnly, Types
      <3>3. NothingSkipped' /\ HandledInOrder' /\ ReactsToNewsOnly' /\ HistoryInv'
        BY <1>1, <2>1, <2>2, <3>1, <3>2 DEF NothingSkipped, HandledInOrder, ReactsToNewsOnly,
                                            HistoryInv, News
      <3> QED BY <2>4, <2>5, <3>3 DEF Inv
    <2>7. CASE cursor # 0
      <3>1. News' = News /\ baseline' = baseline /\ cursor > 0
        BY <1>1, <2>1, <2>2, <2>7 DEF News
      <3>2. NothingSkipped'
        BY <1>1, <2>1, <3>1 DEF Inv, SaveInv, NothingSkipped
      <3>3. HandledInOrder' /\ ReactsToNewsOnly' /\ HistoryInv'
        BY <1>1, <2>1, <2>2, <2>7, <3>1 DEF Inv, HandledInOrder, ReactsToNewsOnly, HistoryInv
      <3> QED BY <2>4, <2>5, <3>2, <3>3 DEF Inv
    <2> QED BY <2>6, <2>7
  <1> QED BY <1>2, <1>3

LEMMA InvStep == Inv /\ [Next]_vars => Inv'
  <1> SUFFICES ASSUME Inv, [Next]_vars PROVE Inv'
    OBVIOUS
  <1>1. CASE PollFails \/ UNCHANGED vars
    <2>1. UNCHANGED <<published, comments, reposted, cursor, torn, pc, page, found, next, newest,
                      decision, handled, baseline, failures, crashes>>
      BY <1>1 DEF PollFails, vars
    <2> QED BY <2>1 DEF Inv, Types, FoundInv, PageInv, BatchInv, SaveInv, HistoryInv, InCycle,
                        NothingSkipped, HandledInOrder, ReactsToNewsOnly, News, Current
  <1> QED BY <1>1, PublishKeeps, FetchKeeps, CommentKeeps, RepostKeeps, SkipKeeps, EndsKeep, LostKeeps,
          SaveKeeps DEF Next, Step

LEMMA InvHolds == Spec => []Inv
  BY InitInv, InvStep, PTL DEF Spec

----------------------------------------------------------------------------

\* The variables of the poller, its file and social_network keep their types.
THEOREM TypeCorrect == Spec => []TypeOK
  <1>1. Inv => TypeOK
    BY PollerAssumption DEF Inv, Types, TypeOK
  <1> QED BY <1>1, InvHolds, PTL

\* No post is ever passed over by the cursor (poller.py:57-97).
THEOREM NeverSkips == Spec => []NothingSkipped
  <1>1. Inv => NothingSkipped
    BY DEF Inv
  <1> QED BY <1>1, InvHolds, PTL

\* First reactions are in the order of publication (poller.py:63).
THEOREM PublishOrder == Spec => []HandledInOrder
  <1>1. Inv => HandledInOrder
    BY DEF Inv
  <1> QED BY <1>1, InvHolds, PTL

\* The backlog and the persona's own posts are left alone, and reposts are explained.
THEOREM OnlyNews == Spec => []ReactsToNewsOnly
  <1>1. Inv => ReactsToNewsOnly
    BY DEF Inv
  <1> QED BY <1>1, InvHolds, PTL

----------------------------------------------------------------------------
(* The persona is a NewsReader.                                              *)

LEMMA ReaderNews == Reader!News = News
  BY DEF Reader!News, News

\* The post in hand is the one whose turn it is.
LEMMA CurrentIsDue ==
    ASSUME Inv, pc \in {"batch", "comment", "repost"}, next > 0, Current \notin Own
    PROVE  Current \in Posts /\ Reader!Due(Current)
  <1>1. /\ Current \in Posts /\ baseline > 0 /\ Current > cursor
        /\ baseline < Current /\ Current <= published
        /\ \A q \in News : q < Current => q \in handled
    BY CoveredBelow
  <1> QED BY <1>1, ReaderNews DEF Reader!Due, News

LEMMA ReaderInit == Init => Reader!Init
  BY DEF Init, Reader!Init

LEMMA ReaderStep == Inv /\ [Next]_vars => [Reader!Next]_(Reader!vars)
  <1> SUFFICES ASSUME Inv, [Next]_vars PROVE Reader!Next \/ UNCHANGED Reader!vars
    OBVIOUS
  <1> USE DEF social, file, walk, history, bounds
  <1>1. CASE Publish
    BY <1>1 DEF Publish, Reader!Publish, Reader!Next
  <1>2. CASE \/ UNCHANGED vars \/ PollFails \/ Start \/ Poll \/ Baseline \/ FetchPage \/ SkipOwn
             \/ RepostRefused \/ BatchDone \/ Truncate \/ RequestFails \/ Crash
    BY <1>2 DEF vars, PollFails, Start, Poll, Baseline, FetchPage, SkipOwn, RepostRefused, BatchDone,
                Truncate, RequestFails, Crash, Reader!vars
  <1>3. ASSUME NEW p \in Posts, Reader!React(p) PROVE Reader!Next
    BY <1>3 DEF Reader!Next
  <1>4. ASSUME NEW d \in Decisions, Decide(d) PROVE Reader!Next \/ UNCHANGED Reader!vars
    <2>1. /\ pc = "batch" /\ next > 0 /\ Current \notin Own
          /\ UNCHANGED <<published, comments, reposted, cursor, baseline>>
      BY <1>4 DEF Decide, Batch, Done
    <2>2. handled' = handled \/ handled' = handled \cup {Current}
      BY <1>4 DEF Decide, Done
    <2>3. Current \in Posts /\ Reader!Due(Current)
      BY <2>1, CurrentIsDue
    <2>4. Reader!React(Current)
      BY <2>1, <2>2, <2>3 DEF Reader!React
    <2> QED BY <1>3, <2>3, <2>4
  <1>5. ASSUME pc = "comment", Commented, UNCHANGED <<published, reposted, cursor, baseline>>,
               handled' = handled \/ handled' = handled \cup {Current}
        PROVE  Reader!Next
    <2>1. Current \in Posts /\ Reader!Due(Current)
      BY <1>5, CurrentIsDue, CurrentIsNews
    <2>2. Reader!Comment(Current) \/ UNCHANGED <<comments, reposted>>
      <3>1. CASE comments[Current] < MaxCount
        BY <1>5, <3>1 DEF Commented, Reader!Comment
      <3>2. CASE ~(comments[Current] < MaxCount)
        <4>1. comments' = [comments EXCEPT ![Current] = comments[Current]]
          BY <1>5, <3>2 DEF Commented
        <4>2. comments \in [Posts -> 0..MaxCount]
          BY DEF Inv, Types
        <4> QED BY <1>5, <4>1, <4>2
      <3> QED BY <3>1, <3>2
    <2>3. Reader!React(Current)
      BY <1>5, <2>1, <2>2 DEF Reader!React
    <2> QED BY <1>3, <2>1, <2>3
  <1>6. CASE Comment
    <2>1. handled' = handled \/ handled' = handled \cup {Current}
      BY <1>6 DEF Comment, Done
    <2>2. pc = "comment" /\ Commented /\ UNCHANGED <<published, reposted, cursor, baseline>>
      BY <1>6 DEF Comment, Done
    <2> QED BY <1>5, <2>1, <2>2
  <1>7. ASSUME pc = "repost", reposted' = reposted \cup {Current},
               UNCHANGED <<published, comments, cursor, baseline>>,
               handled' = handled \/ handled' = handled \cup {Current}
        PROVE  Reader!Next
    <2>1. Current \in Posts /\ Reader!Due(Current) /\ comments[Current] > 0
      BY <1>7, CurrentIsDue, CurrentIsNews
    <2>2. Reader!Share(Current)
      BY <1>7, <2>1 DEF Reader!Share
    <2>3. Reader!React(Current)
      BY <1>7, <2>1, <2>2 DEF Reader!React
    <2> QED BY <1>3, <2>1, <2>3
  <1>8. CASE Repost
    BY <1>7, <1>8 DEF Repost, Done
  <1>9. CASE AnswerLost
    BY <1>5, <1>7, <1>9 DEF AnswerLost
  <1>10. CASE Write
    <2>1. /\ pc = "write" /\ cursor' = newest
          /\ baseline' = IF baseline = 0 THEN newest ELSE baseline
          /\ UNCHANGED <<published, comments, reposted, handled>>
      BY <1>10 DEF Write
    <2>2. /\ newest \in Nat /\ newest > 0 /\ newest <= published /\ newest >= cursor
          /\ cursor \in Nat /\ baseline \in Nat /\ published \in Nat
          /\ MaxPosts \in Nat /\ published <= MaxPosts
          /\ baseline = 0 <=> cursor = 0
          /\ cursor > 0 => \A q \in News : q <= newest => q \in handled
      BY <2>1, PollerAssumption DEF Inv, Types, SaveInv, HistoryInv
    <2>3. newest \in Posts
      BY <2>2 DEF Posts
    <2>4. CASE baseline = 0
      <3>1. Reader!Begin(newest)
        BY <2>1, <2>2, <2>4 DEF Reader!Begin
      <3> QED BY <2>3, <3>1 DEF Reader!Next
    <2>5. CASE baseline # 0 /\ newest # cursor
      <3>1. Reader!Advance(newest)
        BY <2>1, <2>2, <2>5, ReaderNews DEF Reader!Advance
      <3> QED BY <2>3, <3>1 DEF Reader!Next
    <2>6. CASE baseline # 0 /\ newest = cursor
      BY <2>1, <2>6 DEF Reader!vars
    <2> QED BY <2>4, <2>5, <2>6
  <1> QED BY <1>1, <1>2, <1>4, <1>6, <1>8, <1>9, <1>10 DEF Next, Step

\* Seen from the network, every step of the poller, its failures and its kills is one of
\* NewsReader or none at all (poller.py:44-118, state.py:21-28).
THEOREM ImplementsReader == Spec => ReadsInOrder
  BY ReaderInit, ReaderStep, InvHolds, PTL DEF Spec, ReadsInOrder, Reader!Spec

----------------------------------------------------------------------------
(* A cycle ends, and where.                                                  *)

\* How far a cycle is, and within its walk and its batch, what is left of them.
Phase ==
    CASE pc = "down" -> 0
      [] pc = "sleep" -> 1
      [] pc = "baseline" -> 2
      [] pc = "page" -> 3
      [] pc \in {"batch", "comment", "repost"} -> 4
      [] pc = "truncate" -> 5
      [] OTHER -> 6
Rest ==
    CASE pc = "page" -> MaxPosts + 1 - page
      [] pc = "batch" -> 3 * next
      [] pc = "comment" -> 3 * next - 1
      [] pc = "repost" -> 3 * next - 2
      [] OTHER -> 0

\* The post a cycle will leave the cursor at.
Aim ==
    IF pc \in {"truncate", "write"} THEN newest
    ELSE IF found = <<>> THEN cursor ELSE found[1]

\* The request that shows a cycle the newest post there is.
Look == Baseline \/ (FetchPage /\ page = 1)

GetsOn == Phase' > Phase \/ (Phase' = Phase /\ Rest' < Rest)

\* The cycle is over by itself.
Arrives == pc' = "sleep" /\ (cursor' = Aim' \/ ((PollFails \/ RepostRefused) /\ Wedged))

Turn ==
    /\ Step => GetsOn \/ Arrives
    /\ Look => Aim' = published
    /\ Step /\ ~Look /\ pc \notin {"down", "sleep"} => Aim' = Aim
    /\ Publish => Phase' = Phase /\ Rest' = Rest /\ Aim' = Aim
    /\ ~Step /\ ~Publish => failures' + crashes' > failures + crashes

AimInv ==
    /\ pc = "baseline" => found = <<>>
    /\ pc = "page" => page <= published + 1 /\ (page = 1 => found = <<>>)
    /\ pc \in {"truncate", "write"} => found = <<>> \/ newest = found[1]

\* A page that is not empty is one of the first published ones.
LEMMA PagesAreFew ==
    ASSUME Inv, pc = "page"
    PROVE  page <= published /\ page \in Nat \ {0} /\ published \in Nat
  <1>1. First(page) > 0 /\ page \in Nat \ {0} /\ published \in Nat /\ PageSize \in Nat \ {0}
    <2>1. cursor > 0 /\ First(page) >= cursor /\ page \in Nat \ {0} /\ Types
      BY NoGapBefore DEF Inv
    <2> QED BY <2>1, FirstType
  <1>2. PICK m \in Nat : page = m + 1
    <2>1. page - 1 \in Nat /\ page = (page - 1) + 1
      BY <1>1
    <2> QED BY <2>1
  <1>3. PICK j \in Nat : PageSize = j + 1
    <2>1. PageSize - 1 \in Nat /\ PageSize = (PageSize - 1) + 1
      BY <1>1
    <2> QED BY <2>1
  <1>4. m * j \in Nat /\ m * PageSize = m * j + m
    BY <1>3
  <1>5. First(page) = published - m * PageSize
    BY <1>2 DEF First
  <1> QED BY <1>1, <1>2, <1>4, <1>5

\* What FetchPage does, by whether the page holds the cursor.
LEMMA FetchCases ==
    ASSUME Inv, AimInv, FetchPage
    PROVE  /\ pc = "page" /\ UNCHANGED <<published, cursor, reposted>>
           /\ \/ pc' = "sleep" /\ found' = <<>>
              \/ pc' = "batch" /\ found' # <<>> /\ newest' = found'[1]
              \/ pc' = "page" /\ page' = page + 1 /\ found' # <<>>
           /\ found' = <<>> => found = <<>> /\ published = cursor
           /\ found' # <<>> => found'[1] = IF page = 1 THEN published ELSE found[1]
  <1> DEFINE new == UpToCursor(FeedPage(page))
  <1>1. /\ pc = "page" /\ found' = found \o new /\ page \in Nat \ {0}
        /\ UNCHANGED <<published, cursor, reposted>> /\ Types
    BY DEF FetchPage, social, file, Inv, Types
  <1>2. /\ FeedPage(page) # <<>> /\ new \in Seq(Posts) /\ found \in Seq(Posts)
        /\ \A i \in DOMAIN new : new[i] = First(page) + 1 - i
        /\ CursorOn(FeedPage(page)) => Len(new) = First(page) - cursor
        /\ ~CursorOn(FeedPage(page)) => Len(new) = PageSize
    BY <1>1, NoGapBefore, UpToFacts DEF Types
  <1> HIDE DEF new
  <1>3. /\ page = 1 => found = <<>> /\ First(page) = published
        /\ page # 1 => found # <<>>
    <2>1. page = 1 => First(page) = published
      BY <1>1, FirstType DEF First
    <2> QED BY <1>1, <2>1 DEF AimInv, Inv, PageInv
  <1>4. Len(new) \in Nat /\ DOMAIN new = 1..Len(new) /\ Len(found) \in Nat
        /\ (found = <<>> <=> Len(found) = 0) /\ (new = <<>> <=> Len(new) = 0)
    BY <1>2, EmptySeq
  <1>5. /\ Len(found') = Len(found) + Len(new)
        /\ \A i \in 1..Len(found) : found'[i] = found[i]
        /\ \A i \in 1..Len(new) : found'[Len(found) + i] = new[i]
        /\ found' \in Seq(Posts)
    BY <1>1, <1>2, <1>4
  <1>6. found' = <<>> <=> Len(found') = 0
    BY <1>5, EmptySeq
  <1>7. \/ pc' = "sleep" /\ found' = <<>> /\ CursorOn(FeedPage(page))
        \/ pc' = "batch" /\ found' # <<>> /\ newest' = found'[1]
        \/ pc' = "page" /\ page' = page + 1 /\ ~CursorOn(FeedPage(page))
    BY <1>1, <1>2 DEF FetchPage, CursorOn
  <1>8. PageSize \in Nat \ {0} /\ cursor \in Nat /\ published \in Nat
    BY <1>1, FirstType
  <1>9. ~CursorOn(FeedPage(page)) => found' # <<>>
    BY <1>2, <1>4, <1>5, <1>6, <1>8
  <1>10. found' = <<>> => found = <<>> /\ published = cursor
    <2> SUFFICES ASSUME found' = <<>> PROVE found = <<>> /\ published = cursor
      OBVIOUS
    <2>1. Len(found) = 0 /\ Len(new) = 0
      BY <1>4, <1>5, <1>6
    <2>2. page = 1 /\ First(page) = published /\ CursorOn(FeedPage(page))
      BY <1>3, <1>4, <1>9, <2>1
    <2> QED BY <1>2, <1>4, <1>8, <2>1, <2>2
  <1>11. found' # <<>> => found'[1] = IF page = 1 THEN published ELSE found[1]
    <2> SUFFICES ASSUME found' # <<>> PROVE found'[1] = IF page = 1 THEN published ELSE found[1]
      OBVIOUS
    <2>1. CASE page = 1
      <3>1. Len(found) = 0 /\ Len(new) > 0 /\ 1 \in 1..Len(new)
        BY <1>3, <1>4, <1>5, <1>6, <2>1
      <3>2. found'[1] = new[1]
        BY <1>5, <3>1
      <3>3. new[1] = published
        <4>1. 1 \in DOMAIN new /\ First(page) = published
          BY <1>3, <1>4, <2>1, <3>1
        <4>2. new[1] = First(page) + 1 - 1
          BY <1>2, <4>1
        <4> QED BY <1>8, <4>1, <4>2
      <3> QED BY <2>1, <3>2, <3>3
    <2>2. CASE page # 1
      <3>1. 1 \in 1..Len(found)
        BY <1>3, <1>4, <2>2
      <3> QED BY <1>5, <2>2, <3>1
    <2> QED BY <2>1, <2>2
  <1> QED BY <1>1, <1>7, <1>9, <1>10, <1>11

LEMMA AimInit == Init => AimInv
  BY DEF Init, AimInv

LEMMA AimStep == Inv /\ AimInv /\ [Next]_vars => AimInv'
  <1> SUFFICES ASSUME Inv, AimInv, [Next]_vars PROVE AimInv'
    OBVIOUS
  <1> USE DEF social, file, walk, history, bounds
  <1>0. published \in Nat
    BY FirstType DEF Inv, Types
  <1>1. CASE Publish
    <2>1. pc = "page" => page <= published /\ page \in Nat
      BY PagesAreFew
    <2>2. published' = published + 1 /\ UNCHANGED <<pc, page, found, newest>>
      BY <1>1 DEF Publish
    <2> QED BY <1>0, <2>1, <2>2 DEF AimInv
  <1>2. CASE Poll
    <2>1. /\ pc' \in {"baseline", "page"} /\ page' = 1 /\ found' = <<>> /\ published' = published
      BY <1>2 DEF Poll
    <2> QED BY <1>0, <2>1 DEF AimInv
  <1>3. CASE Baseline
    <2>1. /\ pc' \in {"sleep", "truncate"} /\ found' = found /\ pc = "baseline"
      BY <1>3 DEF Baseline
    <2> QED BY <2>1 DEF AimInv
  <1>4. CASE FetchPage
    <2>1. CASE pc' \in {"sleep", "batch"}
      BY <2>1 DEF AimInv
    <2>2. CASE pc' = "page"
      <3>1. pc = "page" /\ page' = page + 1 /\ published' = published
        BY <1>4, <2>2, FetchCases
      <3>2. page <= published /\ page \in Nat \ {0}
        BY <3>1, PagesAreFew
      <3>3. page' <= published' + 1 /\ page' # 1
        BY <1>0, <3>1, <3>2
      <3> QED BY <2>2, <3>3 DEF AimInv
    <2> QED BY <1>4, <2>1, <2>2, FetchCases
  <1>5. CASE BatchDone
    <2>1. pc = "batch" /\ pc' = "truncate" /\ UNCHANGED <<found, newest>>
      BY <1>5 DEF BatchDone
    <2>2. newest = found[1]
      BY <2>1 DEF Inv, BatchInv
    <2> QED BY <2>1, <2>2 DEF AimInv
  <1>6. CASE Truncate
    BY <1>6 DEF Truncate, AimInv
  <1>7. CASE \/ Start \/ SkipOwn \/ (\E d \in Decisions : Decide(d)) \/ Comment \/ Repost
             \/ RepostRefused \/ Write \/ RequestFails \/ AnswerLost \/ Crash
    <2>1. pc' \in {"down", "sleep", "batch", "comment", "repost"}
      BY <1>7 DEF Start, SkipOwn, Decide, Comment, Repost, RepostRefused, Write, RequestFails,
                  AnswerLost, Crash, Done, Batch
    <2> QED BY <2>1 DEF AimInv
  <1>8. CASE PollFails \/ UNCHANGED vars
    <2>1. UNCHANGED <<published, pc, page, found, newest>>
      BY <1>8 DEF PollFails, vars
    <2> QED BY <2>1 DEF AimInv
  <1> QED BY <1>1, <1>2, <1>3, <1>4, <1>5, <1>6, <1>7, <1>8 DEF Next, Step

\* The batch gets shorter with each of its steps, and ends in a save.
LEMMA BatchTurn ==
    ASSUME Inv, AimInv,
           \/ SkipOwn \/ (\E d \in Decisions : Decide(d)) \/ Comment \/ Repost \/ BatchDone
           \/ Truncate
    PROVE  GetsOn /\ Aim' = Aim /\ pc \notin {"down", "sleep"}
  <1> USE DEF social, file, walk, history, bounds
  <1>0. next \in Nat
    BY FoundTypes DEF Inv, Types
  <1>1. CASE SkipOwn \/ \E d \in Decisions : Decide(d)
    <2>1. /\ pc = "batch" /\ UNCHANGED <<found, newest, cursor>>
          /\ \/ pc' = "batch" /\ next' = next - 1
             \/ pc' = "comment" /\ next' = next
      BY <1>1 DEF SkipOwn, Decide, Batch, Done
    <2> QED BY <1>0, <2>1 DEF GetsOn, Phase, Rest, Aim
  <1>2. CASE Comment
    <2>1. /\ pc = "comment" /\ UNCHANGED <<found, newest, cursor>>
          /\ \/ pc' = "batch" /\ next' = next - 1
             \/ pc' = "repost" /\ next' = next
      BY <1>2 DEF Comment, Done
    <2> QED BY <1>0, <2>1 DEF GetsOn, Phase, Rest, Aim
  <1>3. CASE Repost
    <2>1. /\ pc = "repost" /\ UNCHANGED <<found, newest, cursor>> /\ pc' = "batch" /\ next' = next - 1
      BY <1>3 DEF Repost, Done
    <2> QED BY <1>0, <2>1 DEF GetsOn, Phase, Rest, Aim
  <1>4. CASE BatchDone
    <2>1. /\ pc = "batch" /\ UNCHANGED <<found, newest, cursor>> /\ pc' = "truncate"
      BY <1>4 DEF BatchDone
    <2>2. newest = found[1] /\ found # <<>>
      BY <2>1 DEF Inv, BatchInv
    <2> QED BY <2>1, <2>2 DEF GetsOn, Phase, Rest, Aim
  <1>5. CASE Truncate
    <2>1. /\ pc = "truncate" /\ UNCHANGED <<found, newest, cursor>> /\ pc' = "write"
      BY <1>5 DEF Truncate
    <2> QED BY <2>1 DEF GetsOn, Phase, Rest, Aim
  <1> QED BY <1>1, <1>2, <1>3, <1>4, <1>5

\* A cycle looks for the newest post and keeps it at the head of its list.
LEMMA WalkTurn ==
    ASSUME Inv, AimInv, Baseline \/ FetchPage
    PROVE  /\ GetsOn \/ Arrives
           /\ Aim' = IF Look THEN published ELSE Aim
  <1> USE DEF social, file, walk, history, bounds
  <1>1. CASE Baseline
    <2>1. /\ pc = "baseline" /\ found = <<>> /\ found' = found /\ cursor' = cursor /\ cursor = 0
          /\ pc' = IF FeedPage(1) = <<>> THEN "sleep" ELSE "truncate"
          /\ FeedPage(1) # <<>> => newest' = FeedPage(1)[1]
      BY <1>1 DEF Baseline, AimInv, Inv, SaveInv
    <2>2. Look
      BY <1>1 DEF Look
    <2>3. /\ First(1) = published /\ published \in Nat
          /\ FeedPage(1) = <<>> <=> First(1) <= 0
          /\ \A i \in DOMAIN FeedPage(1) : FeedPage(1)[i] = First(1) + 1 - i
          /\ FeedPage(1) \in Seq(Posts)
      <3>1. Types /\ 1 \in Nat \ {0}
        BY DEF Inv
      <3>2. First(1) = published
        BY <3>1, FirstType, PollerAssumption DEF First
      <3> QED BY <3>1, <3>2, FirstType, PageFacts
    <2>4. CASE FeedPage(1) = <<>>
      <3>1. pc' = "sleep" /\ published = 0 /\ Aim' = cursor'
        BY <2>1, <2>3, <2>4 DEF Aim
      <3> QED BY <2>1, <2>2, <3>1 DEF Arrives
    <2>5. CASE FeedPage(1) # <<>>
      <3>1. 1 \in DOMAIN FeedPage(1)
        BY <2>3, <2>5, EmptySeq
      <3>2. FeedPage(1)[1] = First(1) + 1 - 1
        BY <2>3, <3>1
      <3>3. newest' = published
        BY <2>1, <2>3, <2>5, <3>2
      <3> QED BY <2>1, <2>2, <2>5, <3>3 DEF Aim, GetsOn, Phase
    <2> QED BY <2>4, <2>5
  <1>2. CASE FetchPage
    <2>1. /\ pc = "page" /\ cursor' = cursor
          /\ \/ pc' = "sleep" /\ found' = <<>>
             \/ pc' = "batch" /\ found' # <<>>
             \/ pc' = "page" /\ page' = page + 1 /\ found' # <<>>
          /\ found' = <<>> => found = <<>> /\ published = cursor
          /\ found' # <<>> => found'[1] = IF page = 1 THEN published ELSE found[1]
      BY <1>2, FetchCases
    <2>2. page \in Nat /\ MaxPosts \in Nat
      BY PollerAssumption DEF Inv, Types
    <2>3. Look <=> page = 1
      BY <1>2, <2>1 DEF Look, Baseline
    <2>4. page = 1 <=> found = <<>>
      BY <2>1 DEF AimInv, Inv, PageInv
    <2>5. Aim' = IF Look THEN published ELSE Aim
      BY <2>1, <2>3, <2>4 DEF Aim
    <2>6. CASE pc' = "sleep"
      <3>1. cursor' = Aim'
        BY <2>1, <2>6 DEF Aim
      <3> QED BY <2>5, <2>6, <3>1 DEF Arrives
    <2>7. CASE pc' = "batch"
      BY <2>1, <2>5, <2>7 DEF GetsOn, Phase
    <2>8. CASE pc' = "page" /\ page' = page + 1
      <3>1. Phase' = Phase /\ Rest = MaxPosts + 1 - page /\ Rest' = MaxPosts + 1 - (page + 1)
        BY <2>1, <2>8 DEF Phase, Rest
      <3> QED BY <2>2, <2>5, <3>1 DEF GetsOn
    <2> QED BY <2>1, <2>6, <2>7, <2>8
  <1> QED BY <1>1, <1>2

\* Outside the walk and the batch.
LEMMA EndTurn ==
    ASSUME Inv, AimInv, Start \/ PollFails \/ Poll \/ RepostRefused \/ Write
    PROVE  /\ GetsOn \/ Arrives
           /\ pc \notin {"down", "sleep"} => Aim' = Aim
  <1> USE DEF social, file, walk, history, bounds
  <1>1. CASE Start \/ Poll
    <2>1. \/ pc = "down" /\ pc' = "sleep"
          \/ pc = "sleep" /\ pc' \in {"baseline", "page"}
      BY <1>1 DEF Start, Poll
    <2> QED BY <2>1 DEF GetsOn, Phase
  <1>2. CASE PollFails
    <2>1. pc = "sleep" /\ pc' = "sleep" /\ Wedged
      BY <1>2 DEF PollFails, vars, Wedged
    <2> QED BY <1>2, <2>1 DEF Arrives
  <1>3. CASE RepostRefused
    <2>1. /\ pc = "repost" /\ pc' = "sleep" /\ Current \in reposted
          /\ UNCHANGED <<found, cursor>>
      BY <1>3 DEF RepostRefused
    <2>2. Wedged
      <3>1. next > 0
        BY <2>1 DEF Inv, BatchInv
      <3>2. cursor < Current /\ cursor \in Nat /\ Current \in Nat
        BY <2>1, <3>1, CoveredBelow
      <3>3. Current > cursor
        BY <3>2
      <3> QED BY <2>1, <3>3 DEF Wedged
    <2> QED BY <1>3, <2>1, <2>2 DEF Arrives, Aim
  <1>4. CASE Write
    <2>1. pc = "write" /\ pc' = "sleep" /\ cursor' = newest /\ found' = found
      BY <1>4 DEF Write
    <2>2. found = <<>> \/ newest = found[1]
      BY <2>1 DEF AimInv
    <2> QED BY <2>1, <2>2 DEF Arrives, Aim
  <1> QED BY <1>1, <1>2, <1>3, <1>4

LEMMA TurnStep == Inv /\ AimInv /\ [Next]_vars => [Turn]_vars
  <1> SUFFICES ASSUME Inv, AimInv, Next PROVE Turn
    OBVIOUS
  <1> USE DEF social, file, walk, history, bounds
  <1>1. ASSUME Step PROVE GetsOn \/ Arrives
    BY <1>1, BatchTurn, WalkTurn, EndTurn DEF Step
  <1>2. ASSUME Look PROVE Aim' = published
    BY <1>2, WalkTurn DEF Look
  <1>3. ASSUME Step, ~Look, pc \notin {"down", "sleep"} PROVE Aim' = Aim
    BY <1>3, BatchTurn, WalkTurn, EndTurn DEF Step
  <1>4. ASSUME Publish PROVE Phase' = Phase /\ Rest' = Rest /\ Aim' = Aim
    <2>1. UNCHANGED <<pc, page, next, found, newest, cursor>>
      BY <1>4 DEF Publish
    <2> QED BY <2>1 DEF Phase, Rest, Aim
  <1>5. ASSUME ~Step, ~Publish PROVE failures' + crashes' > failures + crashes
    <2>1. failures \in Nat /\ crashes \in Nat
      BY PollerAssumption DEF Inv, Types
    <2>2. RequestFails \/ AnswerLost \/ Crash
      BY <1>5 DEF Next
    <2>3. \/ failures' = failures + 1 /\ crashes' = crashes
          \/ failures' = failures /\ crashes' = crashes + 1
      BY <2>2 DEF RequestFails, AnswerLost, Crash
    <2> QED BY <2>1, <2>3
  <1> QED BY <1>1, <1>2, <1>3, <1>4, <1>5 DEF Turn

LEMMA RestIsLeft == Inv /\ AimInv => Rest \in Nat
  <1> SUFFICES ASSUME Inv, AimInv PROVE Rest \in Nat
    OBVIOUS
  <1>1. CASE pc = "page"
    <2>1. page <= published /\ page \in Nat /\ published \in Nat
      BY <1>1, PagesAreFew
    <2>2. published <= MaxPosts /\ MaxPosts \in Nat
      BY FirstType DEF Inv, Types
    <2> QED BY <1>1, <2>1, <2>2 DEF Rest
  <1>2. CASE pc \in {"batch", "comment", "repost"}
    <2>1. next \in Nat /\ (pc # "batch" => next > 0)
      BY <1>2, FoundTypes DEF Inv, Types, BatchInv
    <2> QED BY <1>2, <2>1 DEF Rest
  <1>3. CASE pc \notin {"page", "batch", "comment", "repost"}
    BY <1>3 DEF Rest
  <1> QED BY <1>1, <1>2, <1>3

\* Every cycle ends, and where it should (poller.py, _poll_once and start): it begins by
\* looking at the newest post there is and keeps that as its aim, whatever is published
\* while it walks; each of its steps takes it further, through no more pages than there
\* are posts and no more reactions than it found; and when no request fails and nobody
\* kills it, it is over only with the cursor at its aim, or wedged.  Together with the
\* fairness of FairSpec and an end of the failures this is CatchesUp.
THEOREM CyclesArrive == Spec => [](Rest \in Nat) /\ [][Turn]_vars
  <1>1. Inv /\ AimInv /\ [Next]_vars => Inv' /\ AimInv'
    BY InvStep, AimStep
  <1>2. Init => Inv /\ AimInv
    BY InitInv, AimInit
  <1> QED BY <1>1, <1>2, TurnStep, RestIsLeft, PTL DEF Spec

=============================================================================
