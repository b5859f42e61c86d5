------------------------------ MODULE Playground ------------------------------
(***************************************************************************)
(* The site's playground: a page that sends the turns of a conversation,   *)
(* one stream each, and a route that runs them on the agent it keeps for   *)
(* the session.  Stop aborts the stream, and it may fail; the run at the   *)
(* server goes on until it next sends an event, so the turn after it may   *)
(* run beside it on the same agent.  An agent and a session are named by   *)
(* the turn that made them.  A cart is an array that a run may hold across *)
(* an await; only how many of one product it has is kept.                  *)
(***************************************************************************)
EXTENDS Integers, FiniteSets

CONSTANTS PlayTurns, PlayMaxItems, PlayMaxCarts, PlayMaxExpiries

ASSUME PlayAssumption ==
  /\ PlayTurns = 1 .. Cardinality(PlayTurns)
  /\ PlayMaxItems \in Nat /\ PlayMaxCarts \in Nat /\ PlayMaxExpiries \in Nat

VARIABLES
  playPage,      \* session: the id the page has; running: isRunning; shown: the
                 \* agent whose cart is on the screen, 0 for none; items: what
                 \* the screen says this cart holds
  playTurn,      \* at: where the run is; open: the page awaits it; aborted: it was
                 \* stopped, or its stream failed; told: the session event has
                 \* arrived; held: the array it adds to; due: the cart in the last
                 \* add_to_cart result that the page has not read yet, 0 if it has
  playSessions,  \* the route's map, from session to agent
  playCart,      \* the array that is the cart of each agent
  playItems,     \* what each array made so far holds
  playExpiries,  \* history: sessions that timed out
  playLast       \* history: the turn whose add_to_cart changed each agent's cart
                 \* last, 0 if none did or something else has since

playVars ==
  <<playPage, playTurn, playSessions, playCart, playItems, playExpiries, playLast>>

PlayIds == PlayTurns \cup {0}

PlayUnsent == [at |-> "unsent", open |-> FALSE, aborted |-> FALSE, told |-> FALSE,
               session |-> 0, agent |-> 0, held |-> 0, due |-> 0]

PlayOver(turn) == [PlayUnsent EXCEPT !.at = "ended", !.aborted = turn.aborted]

PlayInit ==
  /\ playPage = [session |-> 0, running |-> FALSE, shown |-> 0, items |-> 0]
  /\ playTurn = [t \in PlayTurns |-> PlayUnsent]
  /\ playSessions = [s \in PlayTurns |-> 0]
  /\ playCart = [a \in PlayTurns |-> 0]
  /\ playItems = <<>>
  /\ playExpiries = 0
  /\ playLast = [a \in PlayTurns |-> 0]

PlayTypeOK ==
  /\ playPage \in [session : PlayIds, running : BOOLEAN, shown : PlayIds,
                   items : 0 .. PlayMaxItems]
  /\ playTurn \in [PlayTurns ->
       [at : {"unsent", "sent", "creating", "running", "adding", "ended"},
        open : BOOLEAN, aborted : BOOLEAN, told : BOOLEAN,
        session : PlayIds, agent : PlayIds, held : 0 .. PlayMaxCarts,
        due : 0 .. PlayMaxItems]]
  /\ playSessions \in [PlayTurns -> PlayIds]
  /\ DOMAIN playItems \subseteq 1 .. PlayMaxCarts
  /\ \A c \in DOMAIN playItems : playItems[c] \in 0 .. PlayMaxItems
  /\ playCart \in [PlayTurns -> DOMAIN playItems \cup {0}]
  /\ playExpiries \in 0 .. PlayMaxExpiries
  /\ playLast \in [PlayTurns -> PlayIds]

-------------------------------------------------------------------------------
(* Faulty variants, see AcpMerchant. *)

PlayStillRuns_Never(t) == FALSE
PlayNewChat_KeepsCart ==
  /\ playPage' = [playPage EXCEPT !.session = 0, !.running = FALSE]
  /\ playTurn' = [t \in PlayTurns |->
       [playTurn[t] EXCEPT !.aborted = @ \/ playTurn[t].open, !.due = 0]]
  /\ UNCHANGED <<playSessions, playCart, playItems, playExpiries, playLast>>
PlaySetCart_Skipped(a, c) == UNCHANGED playCart
PlayResult_BeforeTheAdd(c) == playItems[c]

-------------------------------------------------------------------------------
(* The page. *)

PlaySet(t, turn) == playTurn' = [playTurn EXCEPT ![t] = turn]

\* What the page has not read of a stream that it aborts it never reads.
PlayAborted(turns) ==
  [t \in PlayTurns |-> [turns[t] EXCEPT !.aborted = @ \/ turns[t].open, !.due = 0]]

\* Neither the button nor the Enter key sends while a turn is running.
PlaySend(t) ==
  /\ ~playPage.running
  /\ playTurn[t].at = "unsent" /\ \A u \in 1 .. (t - 1) : playTurn[u].at # "unsent"
  /\ playTurn' = [PlayAborted(playTurn) EXCEPT
       ![t] = [playTurn[t] EXCEPT !.at = "sent", !.open = TRUE,
                                  !.session = playPage.session]]
  /\ playPage' = [playPage EXCEPT !.running = TRUE]
  /\ UNCHANGED <<playSessions, playCart, playItems, playExpiries, playLast>>

\* The events of a stream come in order, the session first, and none after abort.
PlayTold(t) ==
  /\ playTurn[t].at \in {"running", "adding", "ended"}
  /\ playTurn[t].open /\ ~playTurn[t].told /\ ~playTurn[t].aborted
  /\ PlaySet(t, [playTurn[t] EXCEPT !.told = TRUE])
  /\ playPage' = [playPage EXCEPT !.session = playTurn[t].session]
  /\ UNCHANGED <<playSessions, playCart, playItems, playExpiries, playLast>>

\* An add_to_cart result has the cart, which is then on the screen.
PlayShow(t) ==
  /\ playTurn[t].open /\ playTurn[t].told /\ ~playTurn[t].aborted
  /\ playTurn[t].due # 0
  /\ playPage' =
       [playPage EXCEPT !.shown = playTurn[t].agent, !.items = playTurn[t].due]
  /\ PlaySet(t, [playTurn[t] EXCEPT !.due = 0])
  /\ UNCHANGED <<playSessions, playCart, playItems, playExpiries, playLast>>

PlayLeft(turn) ==
  IF turn.at = "ended" THEN PlayOver(turn) ELSE [turn EXCEPT !.open = FALSE]

\* The stream is over and read, or rejects because it was aborted.
PlayStillRuns(t) == playTurn[t].aborted

PlayClose(t) ==
  /\ playTurn[t].open
  /\ playTurn[t].aborted
       \/ (playTurn[t].at = "ended" /\ playTurn[t].told /\ playTurn[t].due = 0)
  /\ PlaySet(t, PlayLeft(playTurn[t]))
  /\ playPage' = [playPage EXCEPT !.running = PlayStillRuns(t) /\ playPage.running]
  /\ UNCHANGED <<playSessions, playCart, playItems, playExpiries, playLast>>

\* The request or its stream fails: the page says so and awaits it no more.  The run
\* may go on, unless it had not begun.
PlayBreak(t) ==
  LET turn == [playTurn[t] EXCEPT !.aborted = TRUE, !.due = 0] IN
    /\ playTurn[t].open /\ ~playTurn[t].aborted
    /\ \/ PlaySet(t, PlayLeft(turn))
       \/ turn.at \in {"sent", "creating"} /\ PlaySet(t, PlayOver(turn))
    /\ playPage' = [playPage EXCEPT !.running = FALSE]
    /\ UNCHANGED <<playSessions, playCart, playItems, playExpiries, playLast>>

PlayStop ==
  /\ playPage.running
  /\ playTurn' = PlayAborted(playTurn)
  /\ playPage' = [playPage EXCEPT !.running = FALSE]
  /\ UNCHANGED <<playSessions, playCart, playItems, playExpiries, playLast>>

PlayNewChat ==
  /\ playTurn' = PlayAborted(playTurn)
  /\ playPage' = [session |-> 0, running |-> FALSE, shown |-> 0, items |-> 0]
  /\ UNCHANGED <<playSessions, playCart, playItems, playExpiries, playLast>>

-------------------------------------------------------------------------------
(* The route. *)

PlayLookup(t) ==
  LET turn == playTurn[t]
      agent == IF turn.session = 0 THEN 0 ELSE playSessions[turn.session] IN
    /\ turn.at = "sent"
    /\ IF agent # 0
       THEN PlaySet(t, [turn EXCEPT !.at = "running", !.agent = agent])
       ELSE PlaySet(t, [turn EXCEPT !.at = "creating",
                                    !.session = IF @ = 0 THEN t ELSE @])
    /\ UNCHANGED <<playPage, playSessions, playCart, playItems, playExpiries, playLast>>

PlayNewArray ==
  [c \in 1 .. (Cardinality(DOMAIN playItems) + 1) |->
     IF c \in DOMAIN playItems THEN playItems[c] ELSE 0]

PlayHasRoom == Cardinality(DOMAIN playItems) < PlayMaxCarts

\* Two awaits after the lookup the new agent is put under the session's id.
PlayCreate(t) ==
  /\ playTurn[t].at = "creating" /\ PlayHasRoom
  /\ playSessions' = [playSessions EXCEPT ![playTurn[t].session] = t]
  /\ playItems' = PlayNewArray
  /\ playCart' = [playCart EXCEPT ![t] = Cardinality(DOMAIN playItems')]
  /\ PlaySet(t, [playTurn[t] EXCEPT !.at = "running", !.agent = t])
  /\ UNCHANGED <<playPage, playExpiries, playLast>>

\* A session unused for ten minutes; no run takes that long.
PlayExpire(s) ==
  /\ playSessions[s] # 0 /\ playExpiries < PlayMaxExpiries
  /\ \A t \in PlayTurns :
       playTurn[t].session = s => playTurn[t].at \in {"unsent", "ended"}
  /\ playSessions' = [playSessions EXCEPT ![s] = 0]
  /\ playExpiries' = playExpiries + 1
  /\ UNCHANGED <<playPage, playTurn, playCart, playItems, playLast>>

\* The run is over, or the stream it writes to is no longer there.
PlayEnd(t) ==
  /\ playTurn[t].at = "running"
  /\ PlaySet(t, IF playTurn[t].open
                THEN [playTurn[t] EXCEPT !.at = "ended"] ELSE PlayOver(playTurn[t]))
  /\ UNCHANGED <<playPage, playSessions, playCart, playItems, playExpiries, playLast>>

-------------------------------------------------------------------------------
(* The tools of a run that touch the cart. *)

PlaySetCart(a, c) == playCart' = [playCart EXCEPT ![a] = c]

\* The result of add_to_cart has the cart as it is when the tool returns,
PlayResult(c) == playItems'[c]

\* and goes to the page if it still listens.
PlayReported(t, turn, c) ==
  /\ PlaySet(t, [turn EXCEPT !.due =
       IF turn.open /\ ~turn.aborted THEN PlayResult(c) ELSE 0])
  /\ playLast' = [playLast EXCEPT ![turn.agent] = t]

\* toolAddToCart(): a product that is in the cart has its quantity raised at once,
PlayAddMore(t) ==
  LET c == playCart[playTurn[t].agent] IN
    /\ playTurn[t].at = "running" /\ playItems[c] \in 1 .. (PlayMaxItems - 1)
    /\ playItems' = [playItems EXCEPT ![c] = @ + 1]
    /\ PlayReported(t, playTurn[t], c)
    /\ UNCHANGED <<playPage, playSessions, playCart, playExpiries>>

\* any other is asked of the merchant first, with the array in hand,
PlayAdd(t) ==
  LET c == playCart[playTurn[t].agent] IN
    /\ playTurn[t].at = "running" /\ playItems[c] = 0
    /\ PlaySet(t, [playTurn[t] EXCEPT !.at = "adding", !.held = c])
    /\ UNCHANGED <<playPage, playSessions, playCart, playItems, playExpiries, playLast>>

\* and pushed to that array, which becomes the cart again.
PlayAdded(t) ==
  LET turn == playTurn[t] IN
    /\ turn.at = "adding" /\ playItems[turn.held] < PlayMaxItems
    /\ playItems' = [playItems EXCEPT ![turn.held] = @ + 1]
    /\ PlaySetCart(turn.agent, turn.held)
    /\ PlayReported(t, [turn EXCEPT !.at = "running", !.held = 0], turn.held)
    /\ UNCHANGED <<playPage, playSessions, playExpiries>>

\* The page takes no cart from the results of other tools.
PlayChangedUnseen(t) == playLast' = [playLast EXCEPT ![playTurn[t].agent] = 0]

PlayRemove(t) ==
  LET c == playCart[playTurn[t].agent] IN
    /\ playTurn[t].at = "running" /\ playItems[c] > 0
    /\ playItems' = [playItems EXCEPT ![c] = 0]
    /\ PlayChangedUnseen(t)
    /\ UNCHANGED <<playPage, playTurn, playSessions, playCart, playExpiries>>

\* A payment that succeeded leaves the agent a new, empty array, and so does a
\* discover_merchant, whose context is new.
PlayBuy(t) ==
  LET a == playTurn[t].agent IN
    /\ playTurn[t].at = "running" /\ PlayHasRoom
    /\ playItems' = PlayNewArray
    /\ playCart' = [playCart EXCEPT ![a] = Cardinality(DOMAIN playItems')]
    /\ PlayChangedUnseen(t)
    /\ UNCHANGED <<playPage, playTurn, playSessions, playExpiries>>

PlayStep(t) ==
  \/ PlaySend(t) \/ PlayTold(t) \/ PlayShow(t) \/ PlayClose(t) \/ PlayBreak(t)
  \/ PlayLookup(t) \/ PlayCreate(t) \/ PlayEnd(t)
  \/ PlayAddMore(t) \/ PlayAdd(t) \/ PlayAdded(t) \/ PlayRemove(t) \/ PlayBuy(t)

PlayNext ==
  \/ PlayStop \/ PlayNewChat
  \/ \E t \in PlayTurns : PlayStep(t) \/ PlayExpire(t)

PlaySpec == PlayInit /\ [][PlayNext]_playVars

-------------------------------------------------------------------------------
(* Properties. *)

\* The page says that it is working exactly while a turn it sent and did not abort
\* is under way: a stopped turn that ends late does not end the turn after it.
RunningIsShown ==
  playPage.running <=> \E t \in PlayTurns : playTurn[t].open /\ ~playTurn[t].aborted

\* The cart on the screen belongs to the agent that the next turn talks to, whatever
\* was stopped or failed meanwhile, as long as no session has timed out.
ShownCartIsReached ==
  (playExpiries = 0 /\ playPage.shown # 0) =>
    playPage.session # 0 /\ playSessions[playPage.session] = playPage.shown

\* When the page is at rest, the screen has what that agent's cart holds, unless the
\* last change of the cart was one that the page is not told of: of an add_to_cart
\* in a turn that was stopped or failed, a removal, a payment, a discovery.
ShownCartIsCurrent ==
  LET t == playLast[playPage.shown] IN
    ~playPage.running /\ playPage.shown # 0 /\ t # 0 /\ ~playTurn[t].aborted
      => playPage.items = playItems[playCart[playPage.shown]]

\* When add_to_cart returns, the product is in the agent's cart, also if another
\* run of the agent has paid, and so replaced the array, since it began.
AddIsInCart ==
  [][\A t \in PlayTurns : playTurn[t].at = "adding" /\ playTurn'[t].at = "running" =>
       playItems'[playCart'[playTurn[t].agent]] > 0]_playVars
===============================================================================
