----------------------------- MODULE UISession -----------------------------
(***************************************************************************)
(* UIManager: the one browser session of a worker process.  The browser    *)
(* processor calls its operations from the engine threads, each with an    *)
(* event loop of its own.  What an await does to the browser is one step,  *)
(* what the code behind it does up to the next await another: operations   *)
(* of other threads come in between.  An await may raise: the operation    *)
(* then answers an error and leaves behind what it had done; a close that  *)
(* raises has closed nothing itself.                                       *)
(*                                                                         *)
(* Of the objects of Playwright (external) the model keeps which are open. *)
(* A browser is a number; a context has a number and its browser's; a page *)
(* is open as long as its context, and a context as long as its browser.   *)
(***************************************************************************)
EXTENDS Naturals, FiniteSets, Functions, FiniteSetsExt

CONSTANTS
    Users,       \* engine threads with UI nodes
    Sites,       \* context ids besides "default"
    MaxObjects   \* Bound: browsers and contexts that are ever made

ASSUME UIAssumption == "default" \notin Sites /\ MaxObjects \in Nat

VARIABLES
    browser,       \* self.browser, 0 for None
    contexts,      \* self.contexts: id -> context object
    pages,         \* self.pages: id -> context object the page was made in
    pageContext,   \* self.page_to_context: id -> context id
    currentPage,   \* self.current_page_id
    currentContext,\* self.current_context_id
    made,          \* browsers and contexts made so far
    open,          \* external: numbers of the browsers and contexts open
    job,           \* per user: the operation under way
    closeFailed,   \* history: browser.close() has raised
    crossed        \* history: browsers and contexts that a thread was closing
                   \* while another one was at work with them

uiVars == <<browser, contexts, pages, pageContext, currentPage, currentContext,
            made, open, job, closeFailed, crossed>>
sessionVars == <<contexts, pages, pageContext, currentPage, currentContext>>

ContextIds == Sites \cup {"default"}

\* done: the await of the operation has returned, the code behind it has not run.
NoCall == [op |-> "idle", id |-> "none", object |-> [nr |-> 0, browser |-> 0], todo |-> {},
           done |-> FALSE]
Call(op, id, object) == [NoCall EXCEPT !.op = op, !.id = id, !.object = object]

IsOpen(object) == {object.nr, object.browser} \subseteq open
Put(f, key, value) == [x \in DOMAIN f \cup {key} |-> IF x = key THEN value ELSE f[x]]
Without(f, keys) == Restrict(f, DOMAIN f \ keys)

UIInit ==
    /\ browser = 0
    /\ contexts = << >>
    /\ pages = << >>
    /\ pageContext = << >>
    /\ currentPage = "default"
    /\ currentContext = "default"
    /\ made = 0
    /\ open = {}
    /\ job = [u \in Users |-> NoCall]
    /\ closeFailed = FALSE
    /\ crossed = {}

Return(u) == job' = [job EXCEPT ![u] = NoCall]
GoOn(u, op, id, object) == job' = [job EXCEPT ![u] = Call(op, id, object)]
Awaits(u, op) == job[u].op = op /\ ~job[u].done
HasBack(u, op) == job[u].op = op /\ job[u].done
\* The await returns, with the object that was made or used.
GetsBack(u, object) == job' = [job EXCEPT ![u].object = object, ![u].done = TRUE]

MakeObject ==
    /\ made < MaxObjects
    /\ made' = made + 1
    /\ open' = open \cup {made + 1}

\* An await raises: the except branch answers an error.  The close of one
\* context in close_browser has a try of its own (todo).
Raises(u) ==
    /\ job[u].op # "idle" /\ ~job[u].done
    /\ job[u].todo = {}
    /\ Return(u)
    /\ closeFailed' = (closeFailed \/ job[u].op = "close_browser")
    /\ UNCHANGED <<browser, sessionVars, made, open>>

-----------------------------------------------------------------------------
(* launch_browser: browser, default context, default page *)

LaunchBrowser(u) ==
    /\ job[u].op = "idle"
    /\ GoOn(u, "launch", "default", NoCall.object)
    /\ UNCHANGED <<browser, sessionVars, made, open, closeFailed>>

\* Whatever browser there was is forgotten, not closed.  Nobody knows the new
\* one before it is assigned.
BrowserLaunched(u) ==
    /\ Awaits(u, "launch")
    /\ MakeObject
    /\ browser' = made'
    /\ GoOn(u, "launch_context", "default", NoCall.object)
    /\ UNCHANGED <<sessionVars, closeFailed>>

\* browser.new_context() raises when the browser was closed meanwhile, and
\* so does self.browser.new_context() when self.browser is None.
MakeContext(u) ==
    /\ browser \in open
    /\ MakeObject
    /\ GetsBack(u, [nr |-> made', browser |-> browser])
    /\ UNCHANGED <<browser, sessionVars, closeFailed>>

DefaultContextMade(u) == Awaits(u, "launch_context") /\ MakeContext(u)

DefaultContextListed(u) ==
    /\ HasBack(u, "launch_context")
    /\ contexts' = Put(contexts, "default", job[u].object)
    /\ currentContext' = "default"
    /\ GoOn(u, "launch_page", "default", job[u].object)
    /\ UNCHANGED <<browser, pages, pageContext, currentPage, made, open, closeFailed>>

\* context.new_page() raises in a context that is closed.
MakePage(u) ==
    /\ IsOpen(job[u].object)
    /\ GetsBack(u, job[u].object)
    /\ UNCHANGED <<browser, sessionVars, made, open, closeFailed>>

\* Open or closed by now, the page is listed.
ListPage(u, page, id) ==
    /\ pages' = Put(pages, page, job[u].object)
    /\ pageContext' = Put(pageContext, page, id)
    /\ Return(u)
    /\ UNCHANGED <<browser, contexts, currentContext, made, open, closeFailed>>

DefaultPageMade(u) == Awaits(u, "launch_page") /\ MakePage(u)

DefaultPageListed(u) ==
    /\ HasBack(u, "launch_page")
    /\ ListPage(u, "default", "default")
    /\ currentPage' = "default"

-----------------------------------------------------------------------------
(* new_page and new_context *)

\* The page id is the node's (or the second it is made in); the context is
\* the current one, or the default one when that does not exist.
NewPage(u) ==
    /\ job[u].op = "idle"
    /\ browser # 0
    /\ LET id == IF currentContext \in DOMAIN contexts THEN currentContext ELSE "default"
       IN /\ id \in DOMAIN contexts
          /\ GoOn(u, "page", id, contexts[id])
    /\ UNCHANGED <<browser, sessionVars, made, open, closeFailed>>

PageMade(u) == Awaits(u, "page") /\ MakePage(u)

PageListed(u) ==
    /\ HasBack(u, "page")
    /\ ListPage(u, "page", job[u].id)
    /\ UNCHANGED currentPage

\* An id that exists is answered with success, and nothing is made.
NewContext(u, site) ==
    /\ job[u].op = "idle"
    /\ browser # 0
    /\ site \notin DOMAIN contexts
    /\ GoOn(u, "context", site, NoCall.object)
    /\ UNCHANGED <<browser, sessionVars, made, open, closeFailed>>

ContextMade(u) == Awaits(u, "context") /\ MakeContext(u)

ContextListed(u) ==
    /\ HasBack(u, "context")
    /\ contexts' = Put(contexts, job[u].id, job[u].object)
    /\ GoOn(u, "context_page", job[u].id, job[u].object)
    /\ UNCHANGED <<browser, pages, pageContext, currentPage, currentContext, made, open,
                   closeFailed>>

ContextPageMade(u) == Awaits(u, "context_page") /\ MakePage(u)

ContextPageListed(u) ==
    /\ HasBack(u, "context_page")
    /\ ListPage(u, job[u].id, job[u].id)
    /\ UNCHANGED currentPage

-----------------------------------------------------------------------------
(* switch_page, switch_context *)

\* The current context stays what it is.
SwitchPage(u, page) ==
    /\ job[u].op = "idle"
    /\ page \in DOMAIN pages
    /\ currentPage' = page
    /\ UNCHANGED <<browser, contexts, pages, pageContext, currentContext, made, open,
                   job, closeFailed>>

\* The first page of the context becomes the current one, if it has any.
MakeCurrent(id, pagesOf) ==
    /\ currentContext' = id
    /\ IF pagesOf = {} THEN UNCHANGED currentPage ELSE currentPage' \in pagesOf

PagesOf(id) == {p \in DOMAIN pageContext : pageContext[p] = id}

SwitchContext(u, id) ==
    /\ job[u].op = "idle"
    /\ id \in DOMAIN contexts
    /\ MakeCurrent(id, PagesOf(id))
    /\ UNCHANGED <<browser, contexts, pages, pageContext, made, open, job, closeFailed>>

-----------------------------------------------------------------------------
(* close_context, close_browser *)

CloseContext(u, site) ==
    /\ job[u].op = "idle"
    /\ site \in DOMAIN contexts
    /\ GoOn(u, "close_context", site, contexts[site])
    /\ UNCHANGED <<browser, sessionVars, made, open, closeFailed>>

ContextClosed(u) ==
    /\ Awaits(u, "close_context")
    /\ open' = open \ {job[u].object.nr}
    /\ GetsBack(u, job[u].object)
    /\ UNCHANGED <<browser, sessionVars, made, closeFailed>>

\* A plausible slip: the pages of the context stay.
ContextRemovedOnly(u) ==
    /\ HasBack(u, "close_context")
    /\ Return(u)
    /\ IF job[u].id \in DOMAIN contexts
       THEN contexts' = Without(contexts, {job[u].id})
       ELSE UNCHANGED contexts
    /\ UNCHANGED <<browser, pages, pageContext, currentPage, currentContext, made, open,
                   closeFailed>>

\* What other threads did meanwhile is seen only now: a context that is gone
\* raises a KeyError.
ContextRemoved(u) ==
    /\ HasBack(u, "close_context")
    /\ Return(u)
    /\ IF job[u].id \in DOMAIN contexts
       THEN /\ contexts' = Without(contexts, {job[u].id})
            /\ pages' = Without(pages, PagesOf(job[u].id))
            /\ pageContext' = Without(pageContext, PagesOf(job[u].id))
            /\ IF currentContext = job[u].id /\ "default" \in DOMAIN contexts
               THEN MakeCurrent("default", PagesOf("default"))
               ELSE UNCHANGED <<currentPage, currentContext>>
       ELSE UNCHANGED sessionVars
    /\ UNCHANGED <<browser, made, open, closeFailed>>

CloseBrowser(u) ==
    /\ job[u].op = "idle"
    /\ browser # 0
    /\ job' = [job EXCEPT ![u] = [Call("close_browser", "none", NoCall.object)
                                  EXCEPT !.todo = DOMAIN contexts]]
    /\ UNCHANGED <<browser, sessionVars, made, open, closeFailed>>

\* Whether a context's own close raises or not, the loop goes on.
OneContextClosed(u, id) ==
    /\ Awaits(u, "close_browser")
    /\ id \in job[u].todo
    /\ open' = IF id \in DOMAIN contexts THEN open \ {contexts[id].nr} ELSE open
    /\ job' = [job EXCEPT ![u].todo = @ \ {id}]
    /\ UNCHANGED <<browser, sessionVars, made, closeFailed>>

\* self.browser may be another one by now; None raises.
BrowserClosed(u) ==
    /\ Awaits(u, "close_browser")
    /\ job[u].todo = {}
    /\ browser # 0
    /\ open' = open \ {browser}
    /\ GetsBack(u, NoCall.object)
    /\ UNCHANGED <<browser, sessionVars, made, closeFailed>>

BrowserForgotten(u) ==
    /\ HasBack(u, "close_browser")
    /\ browser' = 0
    /\ contexts' = << >>
    /\ pages' = << >>
    /\ pageContext' = << >>
    /\ currentPage' = "default"
    /\ currentContext' = "default"
    /\ Return(u)
    /\ UNCHANGED <<made, open, closeFailed>>

\* What a thread is closing: its context, or whatever there is.
Closing(u) ==
    IF job[u].op = "close_context" THEN {job[u].object.nr}
    ELSE IF job[u].op = "close_browser" THEN 1 .. made ELSE {}

AtWorkWith(v) == {job[v].object.nr, job[v].object.browser}

Crossings ==
    {n \in 1 .. made : \E u, v \in Users : u # v /\ n \in Closing(u) \cap AtWorkWith(v)}

UIStep(u) ==
    \/ LaunchBrowser(u) \/ BrowserLaunched(u)
    \/ DefaultContextMade(u) \/ DefaultContextListed(u)
    \/ DefaultPageMade(u) \/ DefaultPageListed(u)
    \/ NewPage(u) \/ PageMade(u) \/ PageListed(u)
    \/ \E s \in Sites : NewContext(u, s) \/ CloseContext(u, s)
    \/ ContextMade(u) \/ ContextListed(u)
    \/ ContextPageMade(u) \/ ContextPageListed(u)
    \/ ContextClosed(u) \/ ContextRemoved(u)
    \/ \E p \in DOMAIN pages : SwitchPage(u, p)
    \/ \E c \in DOMAIN contexts : SwitchContext(u, c)
    \/ CloseBrowser(u) \/ BrowserClosed(u) \/ BrowserForgotten(u)
    \/ \E c \in ContextIds : OneContextClosed(u, c)
    \/ Raises(u)

UINext ==
    /\ \E u \in Users : UIStep(u)
    /\ crossed' = crossed \cup Crossings'

UISpec == UIInit /\ [][UINext]_uiVars

-----------------------------------------------------------------------------
\* A page that get_page finds can be used, however the operations before it
\* were ordered and where they failed, but for three cases: its context is
\* being closed, or the browser is; closing the browser has raised; or a close
\* of its context, or of the browser, has overlapped with an operation of
\* another thread on the same context (close_context, the comment on the pages
\* that belong to it; launch_browser over a browser that runs; new_page, whose
\* page is listed a step after it was made).
PagesAreOpen ==
    ~closeFailed =>
        \A p \in DOMAIN pages :
            \/ IsOpen(pages[p])
            \/ \E u \in Users : pages[p].nr \in Closing(u)
            \/ {pages[p].nr, pages[p].browser} \cap crossed # {}
=============================================================================
