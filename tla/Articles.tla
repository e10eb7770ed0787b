-------------------------------- MODULE Articles --------------------------------
(***************************************************************************)
(* The articles of the guide: those of the editors (admins) and those of   *)
(* companies, who cannot feature or promote theirs.                        *)
(*                                                                         *)
(* Only one article is meant to be featured.  A request that features one  *)
(* flushes it and then takes the flag from the others (_unfeature_others), *)
(* as far as they were committed by then, before it commits: a step of its *)
(* own here.  Row locks, which only delay commits, are left out.  Articles *)
(* are named after the request that creates them; texts, authors, dates,   *)
(* the promotion of an article and its cover (Images) are left out.        *)
(***************************************************************************)
EXTENDS Requests

CONSTANTS Slugs

VARIABLES
  article,  \* articles: a row, or NoArticle
  by        \* observer: the request that featured an article

articleVars == <<requestVars, article, by>>

ArticleRow ==
  [slug : Slugs, type : {"editorial", "company"}, featured : BOOLEAN,
   published : BOOLEAN]
NoArticle == [type |-> "none"]

Present(a) == article[a] # NoArticle

SlugTaken(slug, a) ==
  \E b \in Requests \ {a} : Present(b) /\ article[b].slug = slug

Featured == {a \in Requests : Present(a) /\ article[a].featured}

ArticleInit ==
  /\ RequestInit
  /\ article = [r \in Requests |-> NoArticle]
  /\ by = [r \in Requests |-> None]

ArticleAbort(r) == End(r) /\ UNCHANGED <<article, by>>

-----------------------------------------------------------------------------
(* Reading: what the row was, and what it is to be.                        *)

\* unfeatures: whether the endpoint calls _unfeature_others for a featured row.
Writes(r, a, was, to, unfeatures) ==
  Begin(r, [kind |-> "article", article |-> a, was |-> was, to |-> to,
            flushed |-> ~(unfeatures /\ to.featured), cleared |-> {}])

NewArticleRead(r, row) ==
  /\ row.type = "company" => ~row.featured
  /\ ~SlugTaken(row.slug, r)
  /\ Writes(r, r, NoArticle, row, row.type = "editorial")
  /\ UNCHANGED <<article, by>>

\* PATCH by an admin.
UpdateArticleRead(r, a, row) ==
  /\ Present(a) /\ row.type = article[a].type
  /\ ~SlugTaken(row.slug, a)
  /\ Writes(r, a, article[a], row, TRUE)
  /\ UNCHANGED <<article, by>>

\* PATCH by the company, and the switch of the admin or of the company that
\* publishes an article: the flag is left as it is.
UpdatePlainRead(r, a, row) ==
  /\ Present(a) /\ row.type = article[a].type /\ row.featured = article[a].featured
  /\ row.type = "company" \/ row.slug = article[a].slug
  /\ ~SlugTaken(row.slug, a)
  /\ Writes(r, a, article[a], row, FALSE)
  /\ UNCHANGED <<article, by>>

\* The switch of the admin that features an article.
FeatureRead(r, a) ==
  /\ Present(a)
  /\ Writes(r, a, article[a], [article[a] EXCEPT !.featured = ~@], TRUE)
  /\ UNCHANGED <<article, by>>

DeleteArticleRead(r, a) ==
  /\ Present(a)
  /\ Begin(r, [kind |-> "delete_article", article |-> a])
  /\ UNCHANGED <<article, by>>

-----------------------------------------------------------------------------
(* Writing.                                                                *)

\* Mutant: the flag is taken from no other.
FlushArticleAlone(r) ==
  /\ Doing(r, "article") /\ ~req[r].flushed
  /\ req' = [req EXCEPT ![r].flushed = TRUE, ![r].cleared = {}]
  /\ UNCHANGED <<ended, saw, article, by>>

\* The flush and _unfeature_others, which sees what has been committed.
FlushArticle(r) ==
  /\ Doing(r, "article") /\ ~req[r].flushed
  /\ req' = [req EXCEPT ![r].flushed = TRUE,
                        ![r].cleared = Featured \ {req[r].article}]
  /\ UNCHANGED <<ended, saw, article, by>>

Unfeatured(row) == [row EXCEPT !.featured = FALSE]

\* Of a row that was read only what differs is written.
Written(row, was, to) ==
  [f \in DOMAIN to |-> IF was # NoArticle /\ was[f] = to[f] THEN row[f] ELSE to[f]]

\* It fails if the row is gone, or its slug has been taken meanwhile.
CommitArticle(r) ==
  /\ Doing(r, "article") /\ End(r)
  /\ req[r].flushed
  /\ LET q == req[r]
         a == q.article
         features == q.to.featured /\ (q.was = NoArticle \/ ~q.was.featured)
     IN IF (q.was # NoArticle /\ ~Present(a))
           \/ ((q.was = NoArticle \/ q.was.slug # q.to.slug) /\ SlugTaken(q.to.slug, a))
        THEN UNCHANGED <<article, by>>
        ELSE /\ article' = [b \in Requests |->
                  IF b = a THEN Written(article[a], q.was, q.to)
                  ELSE IF b \in q.cleared /\ Present(b) THEN Unfeatured(article[b])
                  ELSE article[b]]
             /\ by' = IF features THEN [by EXCEPT ![a] = r] ELSE by

DeleteArticleCommit(r) ==
  /\ Doing(r, "delete_article") /\ End(r)
  /\ article' = [article EXCEPT ![req[r].article] = NoArticle]
  /\ UNCHANGED by

-----------------------------------------------------------------------------
ArticleNext ==
  \E r \in Requests :
    \/ \E row \in ArticleRow :
         \/ NewArticleRead(r, row)
         \/ \E a \in Requests : UpdateArticleRead(r, a, row) \/ UpdatePlainRead(r, a, row)
    \/ \E a \in Requests : FeatureRead(r, a) \/ DeleteArticleRead(r, a)
    \/ FlushArticle(r) \/ CommitArticle(r) \/ DeleteArticleCommit(r)
    \/ ArticleAbort(r)

ArticleSpec == ArticleInit /\ [][ArticleNext]_articleVars

-----------------------------------------------------------------------------
(* Properties.                                                             *)

ArticleRequest ==
  [kind : {"article"}, article : Requests, was : ArticleRow \cup {NoArticle},
   to : ArticleRow, flushed : BOOLEAN, cleared : SUBSET Requests]
  \cup [kind : {"delete_article"}, article : Requests]

\* Every variable has its type.
ArticleTypeOK ==
  /\ req \in [Requests -> ArticleRequest \cup {Idle}]
  /\ article \in [Requests -> ArticleRow \cup {NoArticle}]
  /\ by \in [Requests -> Requests \cup {None}]

\* "Featured slot is exclusive -- only one article carries the badge": two
\* carry it only when the requests that featured them overlapped.
OneFeaturedUnlessOverlapped ==
  \A a, b \in Featured : a # b => Overlap(by[a], by[b])

=============================================================================
