------------------------- MODULE NodeHandlersProofs -------------------------
(***************************************************************************)
(* The handlers of the node processors.  What a handler promises follows   *)
(* from how its steps are arranged, whatever its node meets: the tables    *)
(* are gone through once (<Table>AreWellBuilt), and WalkInv is proved for  *)
(* any handler that is well built.                                         *)
(***************************************************************************)
EXTENDS NodeHandlers, TLAPS

-----------------------------------------------------------------------------
(* What a handler has to look like for its node to keep its promises *)

StepKinds == {"page", "look", "holds", "check", "act", "ask", "reply", "save", "never", "omitted"}
StepType == [kind : StepKinds, fails : {"error", "raise", "next"}, sees : BOOLEAN]

\* A reply that is not looked at where it comes is looked at later on.
ReadBehind(steps, i) ==
    \E j \in DOMAIN steps : i < j /\ steps[j].kind = "reply" /\ steps[j].fails # "next"

\* It goes past nothing that was not done: nothing is left out, no failure of
\* what it is for is swallowed, and no reply stays unread.
OwnsUp(steps) ==
    \A i \in DOMAIN steps :
        /\ steps[i].kind # "omitted"
        /\ steps[i].kind \in {"act", "ask", "holds"} => steps[i].fails # "next"
        /\ steps[i].kind = "ask" /\ ~steps[i].sees => ReadBehind(steps, i)

\* Behind a variable nothing ends the handler.
SavesLast(steps) ==
    \A i, j \in DOMAIN steps : i < j /\ steps[i].kind = "save" =>
        steps[j].kind \in {"save", "omitted"} \/ steps[j].fails = "next"

WellBuilt(id, steps) ==
    /\ steps \in Seq(StepType)
    /\ id \in SucceedInVain \/ OwnsUp(steps)
    /\ id \in SaveTooEarly \/ SavesLast(steps)

WellBuiltTable(p, table) == \A o \in DOMAIN table : WellBuilt(<<p, o>>, table[o])

LEMMA Merged ==
    ASSUME NEW p, NEW f, NEW g, WellBuiltTable(p, f), WellBuiltTable(p, g)
    PROVE  WellBuiltTable(p, f ++ g)
  BY DEF WellBuiltTable, ++

\* Steps that are in order wherever they stand.
Sound ==
    {s \in StepType :
        /\ s.kind \in {"page", "look", "check", "never"}
              \/ (s.kind \in {"act", "ask", "holds"} /\ s.fails # "next" /\ s.sees)}

SoundSteps(steps) == steps \in Seq(Sound)
SoundTable(table) == \A o \in DOMAIN table : SoundSteps(table[o])

\* Steps by which a node succeeds in vain.
Vain ==
    Sound \cup {s \in StepType : s.kind \in {"act", "ask", "holds", "omitted"}}

LEMMA PlainSteps ==
    /\ {Page, Look, Holds, Check, Act, Ask, Never} \subseteq Sound
    /\ {Save, Reply, Omitted} \subseteq StepType
    /\ Save.kind = "save" /\ Save.fails = "error"
    /\ Reply.kind = "reply" /\ Reply.fails = "error"
    /\ Never.kind = "never"
    /\ Omitted.kind = "omitted" /\ Forgotten = Omitted
    /\ Look.kind = "look" /\ Check.kind = "check" /\ Act.kind = "act" /\ Ask.kind = "ask"
    /\ Holds.kind = "holds"
    /\ Ask.sees /\ Holds.sees
  BY DEF Sound, StepType, StepKinds, Page, Look, Holds, Check, Act, Ask, Save, Reply, Never,
         Omitted, Forgotten, On

LEMMA ChangedSteps ==
    ASSUME NEW s \in StepType
    PROVE  /\ {Try(s), Raising(s), Unread(s)} \subseteq StepType
           /\ Try(s).kind = s.kind /\ Raising(s).kind = s.kind /\ Unread(s).kind = s.kind
           /\ Try(s).fails = "next" /\ Raising(s).fails = "raise" /\ Unread(s).fails = s.fails
           /\ Raising(s).sees = s.sees /\ ~Unread(s).sees
  BY DEF Try, Raising, Unread, StepType

\* All steps of the tables but those that set a variable or read a reply.
LEMMA KnownSteps ==
    /\ {Page, Look, Holds, Check, Act, Ask, Never, Try(Look), Try(Check), Raising(Look),
        Raising(Check), Raising(Holds), Raising(Ask), Raising(Never)} \subseteq Sound
    /\ Sound \cup {Omitted, Forgotten, Try(Act), Try(Holds), Unread(Ask)} \subseteq Vain
    /\ Vain \cup {Save, Reply} \subseteq StepType
  <1>1. {Page, Look, Holds, Check, Act, Ask, Never} \subseteq StepType
    BY PlainSteps DEF Sound
  <1>2. {Try(Look), Try(Check), Raising(Look), Raising(Check), Raising(Holds), Raising(Ask),
         Raising(Never)} \subseteq Sound
    BY <1>1, PlainSteps, ChangedSteps DEF Sound
  <1>3. {Omitted, Forgotten, Try(Act), Try(Holds), Unread(Ask)} \subseteq Vain
    BY <1>1, PlainSteps, ChangedSteps DEF Vain
  <1>. QED  BY <1>1, <1>2, <1>3, PlainSteps DEF Vain, Sound

LEMMA SoundIsWellBuilt ==
    ASSUME NEW id, NEW steps, SoundSteps(steps)
    PROVE  WellBuilt(id, steps)
  <1>1. \A i \in DOMAIN steps : steps[i] \in Sound
    BY DEF SoundSteps
  <1>2. steps \in Seq(StepType)
    BY DEF SoundSteps, Sound
  <1>. QED  BY <1>1, <1>2 DEF WellBuilt, OwnsUp, SavesLast, Sound

LEMMA SoundTableIsWellBuilt ==
    ASSUME NEW p, NEW f, SoundTable(f)
    PROVE  WellBuiltTable(p, f)
  BY SoundIsWellBuilt DEF SoundSteps, SoundTable, WellBuiltTable

LEMMA VainIsWellBuilt ==
    ASSUME NEW id \in SucceedInVain, NEW steps \in Seq(Vain)
    PROVE  WellBuilt(id, steps)
  <1>1. \A i \in DOMAIN steps : steps[i] \in Vain
    OBVIOUS
  <1>2. steps \in Seq(StepType)
    BY DEF Vain, Sound
  <1>. QED  BY <1>1, <1>2 DEF WellBuilt, SavesLast, Vain, Sound

LEMMA KnownShapes ==
    /\ SoundSteps(ActOnPage)
    /\ SoundSteps(LookAtPage)
    /\ SoundSteps(HoldsOnPage)
    /\ SoundSteps(VerifyOnPage)
    /\ SoundSteps(ActAndLook)
    /\ SoundSteps(OneDevice)
  BY KnownSteps
     DEF SoundSteps, ActOnPage, LookAtPage, HoldsOnPage, VerifyOnPage, ActAndLook, OneDevice

\* A variable set at the end does no harm.
LEMMA SavesAtEnd ==
    ASSUME NEW steps \in Seq(Vain)
    PROVE  LET all == Append(steps, Save)
           IN  all \in Seq(StepType) /\ SavesLast(all)
  <1>. DEFINE all == Append(steps, Save)
  <1>1. all \in Seq(StepType) /\ DOMAIN all = 1 .. Len(steps) + 1 /\ Len(steps) \in Nat
    BY KnownSteps
  <1>2. \A i \in 1 .. Len(steps) : all[i] = steps[i] /\ steps[i] \in Vain
    OBVIOUS
  <1>3. all[Len(steps) + 1] = Save
    OBVIOUS
  <1>. HIDE DEF all
  <1>4. SavesLast(all)
    BY <1>1, <1>2, <1>3, PlainSteps DEF SavesLast, Vain, Sound
  <1>. QED  BY <1>1, <1>4 DEF all

LEMMA SaveAfterVain ==
    ASSUME NEW id \in SucceedInVain, NEW steps \in Seq(Vain)
    PROVE  WellBuilt(id, Append(steps, Save))
  BY SavesAtEnd DEF WellBuilt

LEMMA SaveAfterSound ==
    ASSUME NEW id, NEW steps \in Seq(Sound)
    PROVE  WellBuilt(id, Append(steps, Save))
  <1>. DEFINE all == Append(steps, Save)
  <1>1. steps \in Seq(Vain)
    BY KnownSteps
  <1>2. /\ DOMAIN all = 1 .. Len(steps) + 1 /\ Len(steps) \in Nat
        /\ \A i \in 1 .. Len(steps) : all[i] = steps[i] /\ steps[i] \in Sound
        /\ all[Len(steps) + 1] = Save
    OBVIOUS
  <1>. HIDE DEF all
  <1>3. OwnsUp(all)
    BY <1>2, PlainSteps DEF OwnsUp, Sound
  <1>. QED  BY <1>1, <1>3, SavesAtEnd DEF WellBuilt, all

-----------------------------------------------------------------------------
(* The tables *)

\* What the special handlers are made of.
LEMMA SpecialSteps ==
    /\ Raising(Check) \in StepType /\ Raising(Check).kind = "check"
    /\ Raising(Look) \in StepType /\ Raising(Look).kind = "look"
    /\ Try(Look) \in StepType /\ Try(Look).kind = "look"
    /\ Unread(Ask) \in StepType /\ Unread(Ask).kind = "ask" /\ Unread(Ask).fails = "error"
  <1>1. {Check, Look, Ask} \subseteq StepType /\ Ask.fails = "error"
    BY PlainSteps DEF Sound, Ask, On
  <1>. QED  BY <1>1, PlainSteps, ChangedSteps

LEMMA FrameSwitch == WellBuilt(<<"advanced_ui", "iframe_switch_to">>, <<Page, Save, Omitted>>)
  <1>. DEFINE s == <<Page, Save, Omitted>>
  <1>1. <<"advanced_ui", "iframe_switch_to">> \in SucceedInVain
    BY DEF SucceedInVain
  <1>2. s \in Seq(StepType)
    BY KnownSteps
  <1>3. DOMAIN s = 1 .. 3 /\ s[1] = Page /\ s[2] = Save /\ s[3] = Omitted
    OBVIOUS
  <1>. HIDE DEF s
  <1>4. SavesLast(s)
    BY <1>3, PlainSteps DEF SavesLast, Sound
  <1>. QED  BY <1>1, <1>2, <1>4 DEF WellBuilt, s

LEMMA StopOfARecording ==
    WellBuilt(<<"recording", "stop_recording">>, <<Check, Forgotten, Save, Act>>)
  <1>. DEFINE s == <<Check, Forgotten, Save, Act>>
  <1>1. /\ <<"recording", "stop_recording">> \in SucceedInVain
        /\ <<"recording", "stop_recording">> \in SaveTooEarly
    BY DEF SucceedInVain, SaveTooEarly
  <1>2. s \in Seq(StepType)
    BY KnownSteps
  <1>. QED  BY <1>1, <1>2 DEF WellBuilt

LEMMA RocketMessage ==
    /\ WellBuilt(<<"service", "rocketmq">>, <<Raising(Check)>> \o RocketReply \o <<Reply>>)
    /\ WellBuilt(<<"service", "rocketmq_output">>,
                 <<Raising(Check)>> \o RocketReply \o <<Save, Reply>>)
  <1>. DEFINE s == <<Raising(Check)>> \o RocketReply \o <<Reply>>
              r == <<Raising(Check)>> \o RocketReply \o <<Save, Reply>>
  <1>2. <<"service", "rocketmq_output">> \in SaveTooEarly
    BY DEF SaveTooEarly
  <1>3. s \in Seq(StepType) /\ r \in Seq(StepType)
    BY KnownSteps, SpecialSteps DEF RocketReply
  <1>4. /\ DOMAIN s = 1 .. 3 /\ s[1] = Raising(Check) /\ s[2] = Unread(Ask) /\ s[3] = Reply
        /\ DOMAIN r = 1 .. 4 /\ r[1] = Raising(Check) /\ r[2] = Unread(Ask)
        /\ r[3] = Save /\ r[4] = Reply
    BY KnownSteps, SpecialSteps DEF RocketReply
  <1>. HIDE DEF s, r
  <1>5. SavesLast(s)
    BY <1>4, PlainSteps, SpecialSteps DEF SavesLast
  <1>6. ReadBehind(s, 2) /\ ReadBehind(r, 2)
    BY <1>4, PlainSteps DEF ReadBehind
  <1>7. OwnsUp(s) /\ OwnsUp(r)
    BY <1>4, <1>6, PlainSteps, SpecialSteps DEF OwnsUp
  <1>. QED  BY <1>2, <1>3, <1>5, <1>7 DEF WellBuilt, s, r

LEMMA TriggeredJob ==
    WellBuilt(<<"service", "xxl_job">>, <<Raising(Check)>> \o JobRequests \o <<Save, Reply>>)
  <1>. DEFINE s == <<Raising(Check)>> \o JobRequests \o <<Save, Reply>>
  <1>2. <<"service", "xxl_job">> \in SaveTooEarly
    BY DEF SaveTooEarly
  <1>3. s \in Seq(StepType)
    BY KnownSteps, SpecialSteps DEF JobRequests
  <1>4. /\ DOMAIN s = 1 .. 5 /\ s[1] = Raising(Check) /\ s[2] = Try(Look)
        /\ s[3] = Unread(Ask) /\ s[4] = Save /\ s[5] = Reply
    BY KnownSteps, SpecialSteps DEF JobRequests
  <1>. HIDE DEF s
  <1>5. ReadBehind(s, 3)
    BY <1>4, PlainSteps DEF ReadBehind
  <1>6. OwnsUp(s)
    BY <1>4, <1>5, PlainSteps, SpecialSteps DEF OwnsUp
  <1>. QED  BY <1>2, <1>3, <1>6 DEF WellBuilt, s

LEMMA TwoExtractions ==
    WellBuilt(<<"compute", "variable_extractor">>,
              <<Raising(Check)>> \o Twice(<<Raising(Look), Save>>))
  <1>. DEFINE s == <<Raising(Check)>> \o Twice(<<Raising(Look), Save>>)
  <1>2. <<"compute", "variable_extractor">> \in SaveTooEarly
    BY DEF SaveTooEarly
  <1>3. s \in Seq(StepType)
    BY KnownSteps, SpecialSteps DEF Twice
  <1>4. /\ DOMAIN s = 1 .. 5 /\ s[1] = Raising(Check) /\ s[2] = Raising(Look) /\ s[3] = Save
        /\ s[4] = Raising(Look) /\ s[5] = Save
    BY KnownSteps, SpecialSteps DEF Twice
  <1>. HIDE DEF s
  <1>5. OwnsUp(s)
    BY <1>4, PlainSteps, SpecialSteps DEF OwnsUp
  <1>. QED  BY <1>2, <1>3, <1>5 DEF WellBuilt, s

LEMMA ScriptSets ==
    WellBuilt(<<"compute", "script_sets">>, ScriptCheck \o <<Save>> \o ScriptRun)
  <1>. DEFINE s == ScriptCheck \o <<Save>> \o ScriptRun
  <1>1. <<"compute", "script_sets">> \in SaveTooEarly
    BY DEF SaveTooEarly
  <1>2. s \in Seq(StepType)
    BY KnownSteps, SpecialSteps DEF ScriptCheck, ScriptRun
  <1>3. DOMAIN s = 1 .. 3 /\ s[1] = Raising(Check) /\ s[2] = Save /\ s[3] = Act
    BY KnownSteps, SpecialSteps DEF ScriptCheck, ScriptRun
  <1>. HIDE DEF s
  <1>4. OwnsUp(s)
    BY <1>3, PlainSteps, SpecialSteps DEF OwnsUp, Act, On
  <1>. QED  BY <1>1, <1>2, <1>4 DEF WellBuilt, s

LEMMA ActionsAreWellBuilt == WellBuiltTable("action", Actions)
  <1>1. /\ SoundTable(KeysAndFiles)
        /\ SoundTable(Shortcuts)
    BY KnownShapes DEF SoundTable, KeysAndFiles, Shortcuts
  <1>2. WellBuiltTable("action", HoverAndExtract)
    <2>1. /\ <<Page, Check, Look>> \in Seq(Sound)
          /\ << >> \in Seq(Sound)
      BY KnownSteps
    <2>2. /\ <<Page, Check, Look, Save>> = Append(<<Page, Check, Look>>, Save)
          /\ <<Save>> = Append(<< >>, Save)
      OBVIOUS
    <2>3. /\ WellBuilt(<<"action", "hover">>, ActOnPage)
          /\ WellBuilt(<<"action", "extract_value">>, <<Page, Check, Look, Save>>)
          /\ WellBuilt(<<"action", "generate_email">>, <<Save>>)
      BY <2>1, <2>2, KnownShapes, SaveAfterSound, SoundIsWellBuilt
    <2>. QED  BY <2>3 DEF HoverAndExtract, WellBuiltTable
  <1>3. WellBuiltTable("action", CookieActions)
    <2>1. <<Page, Look>> \in Seq(Sound)
      BY KnownSteps
    <2>2. <<Page, Look, Save>> = Append(<<Page, Look>>, Save)
      OBVIOUS
    <2>3. /\ WellBuilt(<<"action", "set_cookie">>, ActOnPage)
          /\ WellBuilt(<<"action", "get_cookie">>, <<Page, Look, Save>>)
      BY <2>1, <2>2, KnownShapes, SaveAfterSound, SoundIsWellBuilt
    <2>. QED  BY <2>3 DEF CookieActions, WellBuiltTable
  <1>4. WellBuiltTable("action", PageAndShellActions)
    <2>1. /\ <<Page, Act, Never, Never>> \in Seq(Sound)
          /\ <<Check, Unread(Ask)>> \in Seq(Vain)
      BY KnownSteps
    <2>2. <<Check, Unread(Ask), Save>> = Append(<<Check, Unread(Ask)>>, Save)
      OBVIOUS
    <2>3. <<"action", "cli_action">> \in SucceedInVain
      BY DEF SucceedInVain
    <2>4. /\ WellBuilt(<<"action", "navigation">>, <<Page, Act, Never, Never>>)
          /\ WellBuilt(<<"action", "custom_action">>, ActOnPage)
          /\ WellBuilt(<<"action", "cli_action">>, <<Check, Unread(Ask), Save>>)
      BY <2>1, <2>2, <2>3, KnownShapes, SaveAfterVain, SoundIsWellBuilt DEF SoundSteps
    <2>. QED  BY <2>4 DEF PageAndShellActions, WellBuiltTable
  <1>5. WellBuiltTable("action", ApiAndRefreshActions)
    <2>1. /\ <<Unread(Ask), Check>> \in Seq(Vain)
          /\ <<Page, Act, Never, Never>> \in Seq(Sound)
      BY KnownSteps
    <2>2. <<Unread(Ask), Check, Save>> = Append(<<Unread(Ask), Check>>, Save)
      OBVIOUS
    <2>3. <<"action", "api_action">> \in SucceedInVain
      BY DEF SucceedInVain
    <2>4. /\ WellBuilt(<<"action", "api_action">>, <<Unread(Ask), Check, Save>>)
          /\ WellBuilt(<<"action", "refresh">>, <<Page, Act, Never, Never>>)
      BY <2>1, <2>2, <2>3, SaveAfterVain, SoundIsWellBuilt DEF SoundSteps
    <2>. QED  BY <2>4 DEF ApiAndRefreshActions, WellBuiltTable
  <1>6. WellBuiltTable("action", GeneratedValues)
    <2>1. <<Check>> \in Seq(Sound)
      BY KnownSteps
    <2>2. <<Check, Save>> = Append(<<Check>>, Save)
      OBVIOUS
    <2>3. /\ WellBuilt(<<"action", "generate_random">>, <<Check, Save>>)
          /\ WellBuilt(<<"action", "generate_date">>, <<Check, Save>>)
      BY <2>1, <2>2, SaveAfterSound
    <2>. QED  BY <2>3 DEF GeneratedValues, WellBuiltTable
  <1>7. WellBuiltTable("action", DragAndScroll)
    <2>1. <<Page, Omitted>> \in Seq(Vain)
      BY KnownSteps
    <2>2. <<"action", "scroll_elsewhere">> \in SucceedInVain
      BY DEF SucceedInVain
    <2>3. /\ WellBuilt(<<"action", "drag_drop">>, ActOnPage)
          /\ WellBuilt(<<"action", "scroll">>, ActOnPage)
          /\ WellBuilt(<<"action", "scroll_elsewhere">>, <<Page, Omitted>>)
      BY <2>1, <2>2, KnownShapes, SoundIsWellBuilt, VainIsWellBuilt
    <2>. QED  BY <2>3 DEF DragAndScroll, WellBuiltTable
  <1>. QED  BY <1>1, <1>2, <1>3, <1>4, <1>5, <1>6, <1>7, SoundTableIsWellBuilt, Merged
            DEF Actions

LEMMA ElementsAreWellBuilt == WellBuiltTable("element", Elements)
  <1>1. /\ SoundSteps(<<Page, Check, Try(Look), Try(Look), Act>>)
        /\ SoundSteps(<<Page, Check, Try(Look), Try(Look), Act, Act>>)
        /\ SoundSteps(<<Page, Check, Look>>)
        /\ SoundSteps(<<Page, Check, Act>>)
    BY KnownSteps DEF SoundSteps
  <1>2. /\ SoundTable(ClickElement)
        /\ SoundTable(InputAndText)
        /\ SoundTable(AttributeAndHover)
        /\ SoundTable(ElementClicks)
        /\ SoundTable(OptionAndFile)
    BY <1>1 DEF SoundTable, ClickElement, InputAndText, AttributeAndHover, ElementClicks,
           OptionAndFile
  <1>3. WellBuiltTable("element", ElementKeyPress)
    <2>1. /\ <<Page, Check, Look, Omitted>> \in Seq(Vain)
          /\ SoundSteps(<<Page, Check, Look, Never>>)
      BY KnownSteps DEF SoundSteps
    <2>2. <<"element", "key_press">> \in SucceedInVain
      BY DEF SucceedInVain
    <2>3. /\ WellBuilt(<<"element", "key_press">>, <<Page, Check, Look, Omitted>>)
          /\ WellBuilt(<<"element", "key_press_modified">>, <<Page, Check, Look, Never>>)
      BY <2>1, <2>2, SoundIsWellBuilt, VainIsWellBuilt
    <2>. QED  BY <2>3 DEF ElementKeyPress, WellBuiltTable
  <1>. QED  BY <1>2, <1>3, SoundTableIsWellBuilt, Merged DEF Elements

LEMMA NavigationsAreWellBuilt == WellBuiltTable("navigation", Navigations)
  <1>1. SoundSteps(<<Page, Holds, Look>>)
    BY KnownSteps DEF SoundSteps
  <1>2. /\ SoundTable(History)
        /\ SoundTable(NavigationWaits)
    BY <1>1, KnownShapes DEF SoundTable, History, NavigationWaits
  <1>3. WellBuiltTable("navigation", Navigate)
    <2>1. <<Check, Try(Act), Try(Act), Page, Try(Act), Act, Look>> \in Seq(Vain)
      BY KnownSteps
    <2>2. <<"navigation", "navigate">> \in SucceedInVain
      BY DEF SucceedInVain
    <2>3. WellBuilt(<<"navigation", "navigate">>,
                    <<Check, Try(Act), Try(Act), Page, Try(Act), Act, Look>>)
      BY <2>1, <2>2, VainIsWellBuilt
    <2>. QED  BY <2>3 DEF Navigate, WellBuiltTable
  <1>. QED  BY <1>2, <1>3, SoundTableIsWellBuilt, Merged DEF Navigations

LEMMA WaitsAreWellBuilt == WellBuiltTable("wait", Waits)
  <1>1. /\ SoundSteps(<< >>)
        /\ SoundSteps(<<Holds>>)
        /\ SoundSteps(<<Page, Check, Holds>>)
    BY KnownSteps DEF SoundSteps
  <1>2. /\ SoundTable(WaitForTimeAndFile)
        /\ SoundTable(WaitForDisplay)
    BY <1>1, KnownShapes DEF SoundTable, WaitForTimeAndFile, WaitForDisplay
  <1>3. WellBuiltTable("wait", WaitForElementAndText)
    <2>1. /\ SoundSteps(<<Page, Check, Holds, Look, Look>>)
          /\ SoundSteps(<<Page, Check, Never>>)
      BY KnownSteps DEF SoundSteps
    <2>2. /\ WellBuilt(<<"wait", "wait_for_element">>, <<Page, Check, Holds, Look, Look>>)
          /\ WellBuilt(<<"wait", "wait_for_text">>, HoldsOnPage)
          /\ WellBuilt(<<"wait", "wait_for_text_in_element">>, <<Page, Check, Never>>)
      BY <2>1, KnownShapes, SoundIsWellBuilt
    <2>. QED  BY <2>2 DEF WaitForElementAndText, WellBuiltTable
  <1>4. WellBuiltTable("wait", WaitForUrlAndNetwork)
    <2>1. SoundSteps(<<Page, Holds, Never>>)
      BY KnownSteps DEF SoundSteps
    <2>2. /\ WellBuilt(<<"wait", "wait_for_url">>, <<Page, Holds, Never>>)
          /\ WellBuilt(<<"wait", "wait_for_network">>, HoldsOnPage)
          /\ WellBuilt(<<"wait", "wait_for_condition">>, HoldsOnPage)
      BY <2>1, KnownShapes, SoundIsWellBuilt
    <2>. QED  BY <2>2 DEF WaitForUrlAndNetwork, WellBuiltTable
  <1>5. WellBuiltTable("wait", WaitForPageAndRequest)
    <2>1. <<Page, Omitted>> \in Seq(Vain)
      BY KnownSteps
    <2>2. <<"wait", "wait_for_network_request">> \in SucceedInVain
      BY DEF SucceedInVain
    <2>3. /\ WellBuilt(<<"wait", "wait_for_page_load">>, HoldsOnPage)
          /\ WellBuilt(<<"wait", "wait_for_network_request">>, <<Page, Omitted>>)
      BY <2>1, <2>2, KnownShapes, SoundIsWellBuilt, VainIsWellBuilt
    <2>. QED  BY <2>3 DEF WaitForPageAndRequest, WellBuiltTable
  <1>. QED  BY <1>2, <1>3, <1>4, <1>5, SoundTableIsWellBuilt, Merged DEF Waits

LEMMA ValidationsAreWellBuilt == WellBuiltTable("validation", Validations)
  <1>1. SoundSteps(<<Check, Holds>>)
    BY KnownSteps DEF SoundSteps
  <1>2. /\ SoundTable(ElementValidations)
        /\ SoundTable(AttributeValidations)
        /\ SoundTable(ButtonValidations)
        /\ SoundTable(ResponseValidation)
    BY <1>1, KnownShapes DEF SoundTable, ElementValidations, AttributeValidations,
           ButtonValidations, ResponseValidation
  <1>3. WellBuiltTable("validation", FileAndEmailValidations)
    <2>1. /\ SoundSteps(<<Look, Holds>>)
          /\ <<Omitted>> \in Seq(Vain)
      BY KnownSteps DEF SoundSteps
    <2>2. <<"validation", "email">> \in SucceedInVain
      BY DEF SucceedInVain
    <2>3. /\ WellBuilt(<<"validation", "download">>, <<Look, Holds>>)
          /\ WellBuilt(<<"validation", "email">>, <<Omitted>>)
      BY <2>1, <2>2, SoundIsWellBuilt, VainIsWellBuilt
    <2>. QED  BY <2>3 DEF FileAndEmailValidations, WellBuiltTable
  <1>4. WellBuiltTable("validation", PictureValidations)
    <2>1. <<Page, Look, Check, Omitted>> \in Seq(Vain)
      BY KnownSteps
    <2>2. /\ <<"validation", "element_visualization">> \in SucceedInVain
          /\ <<"validation", "viewport_visualization">> \in SucceedInVain
          /\ <<"validation", "full_page_visualization">> \in SucceedInVain
      BY DEF SucceedInVain
    <2>3. /\ WellBuilt(<<"validation", "element_visualization">>, <<Page, Look, Check, Omitted>>)
          /\ WellBuilt(<<"validation", "viewport_visualization">>, <<Page, Look, Check, Omitted>>)
          /\ WellBuilt(<<"validation", "full_page_visualization">>, <<Page, Look, Check, Omitted>>)
      BY <2>1, <2>2, VainIsWellBuilt
    <2>. QED  BY <2>3 DEF PictureValidations, WellBuiltTable
  <1>5. WellBuiltTable("validation", AccessibilityValidations)
    <2>1. /\ <<Page, Look, Omitted>> \in Seq(Vain)
          /\ <<Page, Look, Look, Look, Try(Holds)>> \in Seq(Vain)
      BY KnownSteps
    <2>2. /\ <<"validation", "page_accessibility">> \in SucceedInVain
          /\ <<"validation", "element_accessibility">> \in SucceedInVain
      BY DEF SucceedInVain
    <2>3. /\ WellBuilt(<<"validation", "page_accessibility">>, <<Page, Look, Omitted>>)
          /\ WellBuilt(<<"validation", "element_accessibility">>,
                       <<Page, Look, Look, Look, Try(Holds)>>)
      BY <2>1, <2>2, VainIsWellBuilt
    <2>. QED  BY <2>3 DEF AccessibilityValidations, WellBuiltTable
  <1>6. WellBuiltTable("validation", RequestAndCustomValidations)
    <2>1. /\ <<Page, Omitted>> \in Seq(Vain)
          /\ SoundSteps(<<Page, Act, Holds>>)
      BY KnownSteps DEF SoundSteps
    <2>2. <<"validation", "network_request">> \in SucceedInVain
      BY DEF SucceedInVain
    <2>3. /\ WellBuilt(<<"validation", "network_request">>, <<Page, Omitted>>)
          /\ WellBuilt(<<"validation", "custom_validation">>, <<Page, Act, Holds>>)
      BY <2>1, <2>2, SoundIsWellBuilt, VainIsWellBuilt
    <2>. QED  BY <2>3 DEF RequestAndCustomValidations, WellBuiltTable
  <1>. QED  BY <1>2, <1>3, <1>4, <1>5, <1>6, SoundTableIsWellBuilt, Merged DEF Validations

LEMMA ScreenshotsAreWellBuilt == WellBuiltTable("screenshot", Screenshots)
  <1>1. SoundSteps(<<Page, Check, Act>>)
    BY KnownSteps DEF SoundSteps
  <1>2. /\ SoundTable(PageAndElementScreenshots)
        /\ SoundTable(ViewportScreenshots)
    BY <1>1 DEF SoundTable, PageAndElementScreenshots, ViewportScreenshots
  <1>. QED  BY <1>2, SoundTableIsWellBuilt, Merged DEF Screenshots

LEMMA AllSmartWaitsAreWellBuilt == WellBuiltTable("smart_wait", AllSmartWaits)
  <1>1. /\ SoundTable(SmartElementWaits)
        /\ SoundTable(SmartNetworkWaits)
    BY KnownShapes DEF SoundTable, SmartElementWaits, SmartNetworkWaits
  <1>2. WellBuiltTable("smart_wait", SmartWaits)
    <2>1. /\ <<Page, Try(Holds), Try(Holds), Try(Holds)>> \in Seq(Vain)
          /\ <<Omitted>> \in Seq(Vain)
      BY KnownSteps
    <2>2. /\ <<"smart_wait", "smart_wait">> \in SucceedInVain
          /\ <<"smart_wait", "retry_operation">> \in SucceedInVain
      BY DEF SucceedInVain
    <2>3. /\ WellBuilt(<<"smart_wait", "smart_wait">>, <<Page, Try(Holds), Try(Holds), Try(Holds)>>)
          /\ WellBuilt(<<"smart_wait", "retry_operation">>, <<Omitted>>)
      BY <2>1, <2>2, VainIsWellBuilt
    <2>. QED  BY <2>3 DEF SmartWaits, WellBuiltTable
  <1>. QED  BY <1>1, <1>2, SoundTableIsWellBuilt, Merged DEF AllSmartWaits

LEMMA AdvancedToolsAreWellBuilt == WellBuiltTable("advanced_ui", AdvancedTools)
  <1>1. WellBuiltTable("advanced_ui", TextAndPicture)
    <2>1. <<Page, Act, Omitted>> \in Seq(Vain)
      BY KnownSteps
    <2>2. <<"advanced_ui", "visual_validation">> \in SucceedInVain
      BY DEF SucceedInVain
    <2>3. /\ WellBuilt(<<"advanced_ui", "dynamic_text_input">>, ActOnPage)
          /\ WellBuilt(<<"advanced_ui", "visual_validation">>, <<Page, Act, Omitted>>)
      BY <2>1, <2>2, KnownShapes, SoundIsWellBuilt, VainIsWellBuilt
    <2>. QED  BY <2>3 DEF TextAndPicture, WellBuiltTable
  <1>2. WellBuiltTable("advanced_ui", PageAudits)
    <2>1. /\ <<Page, Look, Omitted>> \in Seq(Vain)
          /\ <<Page, Forgotten>> \in Seq(Vain)
      BY KnownSteps
    <2>2. /\ <<"advanced_ui", "accessibility_testing">> \in SucceedInVain
          /\ <<"advanced_ui", "network_monitoring">> \in SucceedInVain
      BY DEF SucceedInVain
    <2>3. /\ WellBuilt(<<"advanced_ui", "accessibility_testing">>, <<Page, Look, Omitted>>)
          /\ WellBuilt(<<"advanced_ui", "network_monitoring">>, <<Page, Forgotten>>)
      BY <2>1, <2>2, VainIsWellBuilt
    <2>. QED  BY <2>3 DEF PageAudits, WellBuiltTable
  <1>3. WellBuiltTable("advanced_ui", TimingsAndFrames)
    <2>1. /\ SoundSteps(<<Page, Look, Look, Look>>)
          /\ <<Page, Omitted>> \in Seq(Vain)
      BY KnownSteps DEF SoundSteps
    <2>2. /\ <<"advanced_ui", "iframe_switch_back">> \in SucceedInVain
          /\ <<"advanced_ui", "iframe_other">> \in SucceedInVain
      BY DEF SucceedInVain
    <2>3. /\ WellBuilt(<<"advanced_ui", "performance_testing">>, <<Page, Look, Look, Look>>)
          /\ WellBuilt(<<"advanced_ui", "iframe_switch_back">>, <<Page, Omitted>>)
          /\ WellBuilt(<<"advanced_ui", "iframe_other">>, <<Page, Omitted>>)
      BY <2>1, <2>2, SoundIsWellBuilt, VainIsWellBuilt
    <2>4. WellBuilt(<<"advanced_ui", "iframe_switch_to">>, <<Page, Save, Omitted>>)
      BY FrameSwitch
    <2>. QED  BY <2>3, <2>4 DEF TimingsAndFrames, WellBuiltTable
  <1>4. WellBuiltTable("advanced_ui", ShadowAndLocators)
    <2>1. /\ SoundSteps(<<Page, Never>>)
          /\ SoundSteps(<<Page, Check>>)
          /\ <<Page, Omitted>> \in Seq(Vain)
      BY KnownSteps DEF SoundSteps
    <2>2. <<"advanced_ui", "shadow_dom_other">> \in SucceedInVain
      BY DEF SucceedInVain
    <2>3. /\ WellBuilt(<<"advanced_ui", "shadow_dom">>, <<Page, Never>>)
          /\ WellBuilt(<<"advanced_ui", "shadow_dom_other">>, <<Page, Omitted>>)
          /\ WellBuilt(<<"advanced_ui", "locator_improvement">>, <<Page, Check>>)
      BY <2>1, <2>2, SoundIsWellBuilt, VainIsWellBuilt
    <2>. QED  BY <2>3 DEF ShadowAndLocators, WellBuiltTable
  <1>. QED  BY <1>1, <1>2, <1>3, <1>4, Merged DEF AdvancedTools

LEMMA AssistedToolsAreWellBuilt == WellBuiltTable("ai_assisted", AssistedTools)
  <1>1. SoundSteps(<<Page, Look, Check, Look, Holds>>)
    BY KnownSteps DEF SoundSteps
  <1>2. /\ SoundTable(FoundByDescription)
        /\ SoundTable(HealedSelector)
        /\ SoundTable(IntelligentWait)
    BY <1>1, KnownShapes DEF SoundTable, FoundByDescription, HealedSelector, IntelligentWait
  <1>3. WellBuiltTable("ai_assisted", PageStructure)
    <2>1. SoundSteps(<<Page, Never>>)
      BY KnownSteps DEF SoundSteps
    <2>2. /\ WellBuilt(<<"ai_assisted", "suggest_selectors">>, LookAtPage)
          /\ WellBuilt(<<"ai_assisted", "analyze_page_structure">>, LookAtPage)
          /\ WellBuilt(<<"ai_assisted", "semantic_search">>, <<Page, Never>>)
      BY <2>1, KnownShapes, SoundIsWellBuilt
    <2>. QED  BY <2>2 DEF PageStructure, WellBuiltTable
  <1>. QED  BY <1>2, <1>3, SoundTableIsWellBuilt, Merged DEF AssistedTools

LEMMA ResponsiveToolsAreWellBuilt == WellBuiltTable("responsive", ResponsiveTools)
  <1>1. SoundSteps(<<Check, Page, Act, Act, Act, Act, Act, Act>>)
    BY KnownSteps DEF SoundSteps
  <1>2. SoundTable(OrientationTest)
    BY <1>1 DEF SoundTable, OrientationTest
  <1>3. WellBuiltTable("responsive", DeviceLayouts)
    <2>. DEFINE test_responsive_layout == <<Page>> \o Twice(OneDevice)
    <2>1. SoundSteps(<<Page>> \o Twice(OneDevice))
      BY KnownSteps, KnownShapes DEF SoundSteps, Twice
    <2>2. <<Page, Omitted>> \in Seq(Vain)
      BY KnownSteps
    <2>3. <<"responsive", "test_unknown_layout">> \in SucceedInVain
      BY DEF SucceedInVain
    <2>4. /\ WellBuilt(<<"responsive", "test_responsive_layout">>, test_responsive_layout)
          /\ WellBuilt(<<"responsive", "test_unknown_layout">>, <<Page, Omitted>>)
          /\ WellBuilt(<<"responsive", "set_viewport">>, ActOnPage)
      BY <2>1, <2>2, <2>3, KnownShapes, SoundIsWellBuilt, VainIsWellBuilt
    <2>5. DeviceLayouts = [test_responsive_layout |-> test_responsive_layout,
            test_unknown_layout |-> <<Page, Omitted>>, set_viewport |-> ActOnPage]
      BY Zenon DEF DeviceLayouts
    <2>. HIDE DEF test_responsive_layout
    <2>. QED  BY <2>4, <2>5 DEF WellBuiltTable
  <1>4. WellBuiltTable("responsive", DeviceTests)
    <2>. DEFINE test_device == <<Check, Page>> \o OneDevice
                capture_multi_device == <<Page>> \o Twice(OneDevice)
    <2>1. /\ SoundSteps(<<Check, Page>> \o OneDevice)
          /\ SoundSteps(<<Page>> \o Twice(OneDevice))
      BY KnownSteps, KnownShapes DEF SoundSteps, Twice
    <2>2. <<Page, Omitted>> \in Seq(Vain)
      BY KnownSteps
    <2>3. <<"responsive", "capture_unknown_device">> \in SucceedInVain
      BY DEF SucceedInVain
    <2>4. /\ WellBuilt(<<"responsive", "test_device">>, test_device)
          /\ WellBuilt(<<"responsive", "capture_multi_device">>, capture_multi_device)
          /\ WellBuilt(<<"responsive", "capture_unknown_device">>, <<Page, Omitted>>)
      BY <2>1, <2>2, <2>3, SoundIsWellBuilt, VainIsWellBuilt
    <2>5. DeviceTests = [test_device |-> test_device,
            capture_multi_device |-> capture_multi_device,
            capture_unknown_device |-> <<Page, Omitted>>]
      BY Zenon DEF DeviceTests
    <2>. HIDE DEF test_device, capture_multi_device
    <2>. QED  BY <2>4, <2>5 DEF WellBuiltTable
  <1>5. WellBuiltTable("responsive", BreakpointTest)
    <2>. DEFINE test_breakpoints == <<Page>> \o Twice(<<Act, Act, Act, Look>>)
    <2>1. SoundSteps(<<Page>> \o Twice(<<Act, Act, Act, Look>>))
      BY KnownSteps DEF SoundSteps, Twice
    <2>2. WellBuilt(<<"responsive", "test_breakpoints">>, test_breakpoints)
      BY <2>1, SoundIsWellBuilt
    <2>3. BreakpointTest = [test_breakpoints |-> test_breakpoints]
      BY Zenon DEF BreakpointTest
    <2>. HIDE DEF test_breakpoints
    <2>. QED  BY <2>2, <2>3 DEF WellBuiltTable
  <1>. QED  BY <1>2, <1>3, <1>4, <1>5, SoundTableIsWellBuilt, Merged DEF ResponsiveTools

LEMMA VisualToolsAreWellBuilt == WellBuiltTable("visual", VisualTools)
  <1>1. SoundSteps(<<Page, Act, Act>>)
    BY KnownSteps DEF SoundSteps
  <1>2. SoundTable(Baseline)
    BY <1>1 DEF SoundTable, Baseline
  <1>3. WellBuiltTable("visual", Comparison)
    <2>1. <<Page, Check, Act, Look, Try(Holds)>> \in Seq(Vain)
      BY KnownSteps
    <2>2. <<"visual", "visual_compare">> \in SucceedInVain
      BY DEF SucceedInVain
    <2>3. WellBuilt(<<"visual", "visual_compare">>, <<Page, Check, Act, Look, Try(Holds)>>)
      BY <2>1, <2>2, VainIsWellBuilt
    <2>. QED  BY <2>3 DEF Comparison, WellBuiltTable
  <1>4. WellBuiltTable("visual", ComparisonVariants)
    <2>1. /\ SoundSteps(<<Page, Act, Act>>)
          /\ <<Page, Check, Act, Look, Try(Holds)>> \in Seq(Vain)
      BY KnownSteps DEF SoundSteps
    <2>2. /\ <<"visual", "element_compare">> \in SucceedInVain
          /\ <<"visual", "full_page_compare">> \in SucceedInVain
      BY DEF SucceedInVain
    <2>3. /\ WellBuilt(<<"visual", "update_baseline">>, <<Page, Act, Act>>)
          /\ WellBuilt(<<"visual", "element_compare">>, <<Page, Check, Act, Look, Try(Holds)>>)
          /\ WellBuilt(<<"visual", "full_page_compare">>, <<Page, Check, Act, Look, Try(Holds)>>)
      BY <2>1, <2>2, SoundIsWellBuilt, VainIsWellBuilt
    <2>. QED  BY <2>3 DEF ComparisonVariants, WellBuiltTable, Baseline, Comparison
  <1>5. WellBuiltTable("visual", ComparisonReport)
    <2>1. <<Forgotten, Act>> \in Seq(Vain)
      BY KnownSteps
    <2>2. <<"visual", "get_comparison_report">> \in SucceedInVain
      BY DEF SucceedInVain
    <2>3. WellBuilt(<<"visual", "get_comparison_report">>, <<Forgotten, Act>>)
      BY <2>1, <2>2, VainIsWellBuilt
    <2>. QED  BY <2>3 DEF ComparisonReport, WellBuiltTable
  <1>. QED  BY <1>2, <1>3, <1>4, <1>5, SoundTableIsWellBuilt, Merged DEF VisualTools

LEMMA PerformanceToolsAreWellBuilt == WellBuiltTable("performance", PerformanceTools)
  <1>1. SoundSteps(<<Page, Act, Look, Try(Check)>>)
    BY KnownSteps DEF SoundSteps
  <1>2. /\ SoundTable(PageLoad)
        /\ SoundTable(PageMetrics)
    BY <1>1, KnownShapes DEF SoundTable, PageLoad, PageMetrics
  <1>3. WellBuiltTable("performance", PerformanceReport)
    <2>1. <<Forgotten, Act>> \in Seq(Vain)
      BY KnownSteps
    <2>2. <<"performance", "generate_performance_report">> \in SucceedInVain
      BY DEF SucceedInVain
    <2>3. /\ WellBuilt(<<"performance", "get_lighthouse_metrics">>, LookAtPage)
          /\ WellBuilt(<<"performance", "generate_performance_report">>, <<Forgotten, Act>>)
      BY <2>1, <2>2, KnownShapes, SoundIsWellBuilt, VainIsWellBuilt
    <2>. QED  BY <2>3 DEF PerformanceReport, WellBuiltTable
  <1>4. WellBuiltTable("performance", ResourceMetrics)
    <2>1. <<Page, Omitted, Look>> \in Seq(Vain)
      BY KnownSteps
    <2>2. <<"performance", "measure_other_interaction">> \in SucceedInVain
      BY DEF SucceedInVain
    <2>3. /\ WellBuilt(<<"performance", "analyze_resource_loading">>, LookAtPage)
          /\ WellBuilt(<<"performance", "measure_interaction_time">>, ActAndLook)
          /\ WellBuilt(<<"performance", "measure_other_interaction">>, <<Page, Omitted, Look>>)
      BY <2>1, <2>2, KnownShapes, SoundIsWellBuilt, VainIsWellBuilt
    <2>. QED  BY <2>3 DEF ResourceMetrics, WellBuiltTable
  <1>. QED  BY <1>2, <1>3, <1>4, SoundTableIsWellBuilt, Merged DEF PerformanceTools

LEMMA ObservabilityToolsAreWellBuilt == WellBuiltTable("observability", ObservabilityTools)
  <1>1. /\ SoundSteps(<<Page, Look, Act, Look, Act, Try(Look), Try(Look), Try(Look)>>)
        /\ SoundSteps(<<Page, Try(Look)>>)
    BY KnownSteps DEF SoundSteps
  <1>2. /\ SoundTable(Diagnostic)
        /\ SoundTable(PageRecords)
    BY <1>1 DEF SoundTable, Diagnostic, PageRecords
  <1>3. WellBuiltTable("observability", Monitoring)
    <2>1. /\ <<Page, Forgotten>> \in Seq(Vain)
          /\ <<Forgotten>> \in Seq(Vain)
      BY KnownSteps
    <2>2. /\ <<"observability", "start_monitoring">> \in SucceedInVain
          /\ <<"observability", "stop_monitoring">> \in SucceedInVain
      BY DEF SucceedInVain
    <2>3. /\ WellBuilt(<<"observability", "start_monitoring">>, <<Page, Forgotten>>)
          /\ WellBuilt(<<"observability", "stop_monitoring">>, <<Forgotten>>)
      BY <2>1, <2>2, VainIsWellBuilt
    <2>. QED  BY <2>3 DEF Monitoring, WellBuiltTable
  <1>4. WellBuiltTable("observability", DiagnosticReport)
    <2>1. /\ SoundSteps(<<Page, Try(Look)>>)
          /\ <<Forgotten, Act>> \in Seq(Vain)
      BY KnownSteps DEF SoundSteps
    <2>2. <<"observability", "save_diagnostic_report">> \in SucceedInVain
      BY DEF SucceedInVain
    <2>3. /\ WellBuilt(<<"observability", "get_performance_metrics">>, <<Page, Try(Look)>>)
          /\ WellBuilt(<<"observability", "save_diagnostic_report">>, <<Forgotten, Act>>)
      BY <2>1, <2>2, SoundIsWellBuilt, VainIsWellBuilt
    <2>. QED  BY <2>3 DEF DiagnosticReport, WellBuiltTable
  <1>. QED  BY <1>2, <1>3, <1>4, SoundTableIsWellBuilt, Merged DEF ObservabilityTools

LEMMA RecordingToolsAreWellBuilt == WellBuiltTable("recording", RecordingTools)
  <1>1. WellBuiltTable("recording", PauseAndResume)
    <2>1. <<Check>> \in Seq(Sound) /\ <<Check, Save>> = Append(<<Check>>, Save)
      BY KnownSteps
    <2>2. /\ WellBuilt(<<"recording", "pause_recording">>, <<Check, Save>>)
          /\ WellBuilt(<<"recording", "resume_recording">>, <<Check, Save>>)
      BY <2>1, SaveAfterSound
    <2>. QED  BY <2>2 DEF PauseAndResume, WellBuiltTable
  <1>2. WellBuiltTable("recording", RecordedSteps)
    <2>1. <<Check, Forgotten>> \in Seq(Vain)
      BY KnownSteps
    <2>2. <<"recording", "get_recorded_steps">> \in SucceedInVain
      BY DEF SucceedInVain
    <2>3. WellBuilt(<<"recording", "get_recorded_steps">>, <<Check, Forgotten>>)
      BY <2>1, <2>2, VainIsWellBuilt
    <2>. QED  BY <2>3 DEF RecordedSteps, WellBuiltTable
  <1>3. WellBuiltTable("recording", StartAndStop)
    <2>1. << >> \in Seq(Sound)
      BY KnownSteps
    <2>2. <<Save>> = Append(<< >>, Save)
      OBVIOUS
    <2>3. WellBuilt(<<"recording", "start_recording">>, <<Save>>)
      BY <2>1, <2>2, SaveAfterSound
    <2>4. WellBuilt(<<"recording", "stop_recording">>, <<Check, Forgotten, Save, Act>>)
      BY StopOfARecording
    <2>. QED  BY <2>3, <2>4 DEF StartAndStop, WellBuiltTable
  <1>4. WellBuiltTable("recording", RecordedClicks)
    <2>1. <<Check, Forgotten>> \in Seq(Vain)
      BY KnownSteps
    <2>2. /\ <<"recording", "record_click">> \in SucceedInVain
          /\ <<"recording", "record_double_click">> \in SucceedInVain
          /\ <<"recording", "record_right_click">> \in SucceedInVain
      BY DEF SucceedInVain
    <2>3. /\ WellBuilt(<<"recording", "record_click">>, <<Check, Forgotten>>)
          /\ WellBuilt(<<"recording", "record_double_click">>, <<Check, Forgotten>>)
          /\ WellBuilt(<<"recording", "record_right_click">>, <<Check, Forgotten>>)
      BY <2>1, <2>2, VainIsWellBuilt
    <2>. QED  BY <2>3 DEF RecordedClicks, WellBuiltTable
  <1>5. WellBuiltTable("recording", RecordedInputs)
    <2>1. <<Check, Forgotten>> \in Seq(Vain)
      BY KnownSteps
    <2>2. /\ <<"recording", "record_scroll">> \in SucceedInVain
          /\ <<"recording", "record_set_text">> \in SucceedInVain
          /\ <<"recording", "record_file_upload">> \in SucceedInVain
      BY DEF SucceedInVain
    <2>3. /\ WellBuilt(<<"recording", "record_scroll">>, <<Check, Forgotten>>)
          /\ WellBuilt(<<"recording", "record_set_text">>, <<Check, Forgotten>>)
          /\ WellBuilt(<<"recording", "record_file_upload">>, <<Check, Forgotten>>)
      BY <2>1, <2>2, VainIsWellBuilt
    <2>. QED  BY <2>3 DEF RecordedInputs, WellBuiltTable
  <1>6. WellBuiltTable("recording", RecordedFiles)
    <2>1. <<Check, Forgotten>> \in Seq(Vain)
      BY KnownSteps
    <2>2. /\ <<"recording", "record_file_drop">> \in SucceedInVain
          /\ <<"recording", "record_key_press">> \in SucceedInVain
          /\ <<"recording", "record_download">> \in SucceedInVain
      BY DEF SucceedInVain
    <2>3. /\ WellBuilt(<<"recording", "record_file_drop">>, <<Check, Forgotten>>)
          /\ WellBuilt(<<"recording", "record_key_press">>, <<Check, Forgotten>>)
          /\ WellBuilt(<<"recording", "record_download">>, <<Check, Forgotten>>)
      BY <2>1, <2>2, VainIsWellBuilt
    <2>. QED  BY <2>3 DEF RecordedFiles, WellBuiltTable
  <1>. QED  BY <1>1, <1>2, <1>3, <1>4, <1>5, <1>6, Merged DEF RecordingTools

LEMMA ServicesAreWellBuilt == WellBuiltTable("service", Services)
  <1>1. WellBuiltTable("service", Http)
    <2>. DEFINE http == HttpRequest \o HttpCredential \o HttpReply
                http_upload == HttpRequest \o HttpFiles \o HttpCredential \o HttpReply
    <2>1. /\ SoundSteps(HttpRequest \o HttpCredential \o HttpReply)
          /\ SoundSteps(HttpRequest \o HttpFiles \o HttpCredential \o HttpReply)
      BY KnownSteps DEF SoundSteps, HttpCredential, HttpFiles, HttpReply, HttpRequest
    <2>2. /\ WellBuilt(<<"service", "http">>, http)
          /\ WellBuilt(<<"service", "http_upload">>, http_upload)
      BY <2>1, SoundIsWellBuilt
    <2>3. Http = [http |-> http, http_upload |-> http_upload]
      BY Zenon DEF Http
    <2>. HIDE DEF http, http_upload
    <2>. QED  BY <2>2, <2>3 DEF WellBuiltTable
  <1>2. WellBuiltTable("service", Dubbo)
    <2>. DEFINE dubbo == <<Raising(Check)>> \o DubboReply
    <2>1. <<Raising(Check)>> \o DubboReply \in Seq(Vain)
      BY KnownSteps DEF DubboReply
    <2>2. <<"service", "dubbo">> \in SucceedInVain
      BY DEF SucceedInVain
    <2>3. WellBuilt(<<"service", "dubbo">>, dubbo)
      BY <2>1, <2>2, VainIsWellBuilt
    <2>4. Dubbo = [dubbo |-> dubbo]
      BY Zenon DEF Dubbo
    <2>. HIDE DEF dubbo
    <2>. QED  BY <2>3, <2>4 DEF WellBuiltTable
  <1>3. WellBuiltTable("service", RocketMQ)
    <2>. DEFINE rocketmq == <<Raising(Check)>> \o RocketReply \o <<Reply>>
                rocketmq_output == <<Raising(Check)>> \o RocketReply \o <<Save, Reply>>
    <2>1. WellBuilt(<<"service", "rocketmq">>, rocketmq)
      BY RocketMessage
    <2>2. WellBuilt(<<"service", "rocketmq_output">>, rocketmq_output)
      BY RocketMessage
    <2>3. RocketMQ = [rocketmq |-> rocketmq, rocketmq_output |-> rocketmq_output]
      BY Zenon DEF RocketMQ
    <2>. HIDE DEF rocketmq, rocketmq_output
    <2>. QED  BY <2>1, <2>2, <2>3 DEF WellBuiltTable
  <1>4. WellBuiltTable("service", XxlJob)
    <2>. DEFINE xxl_job == <<Raising(Check)>> \o JobRequests \o <<Save, Reply>>
    <2>1. WellBuilt(<<"service", "xxl_job">>, xxl_job)
      BY TriggeredJob
    <2>2. XxlJob = [xxl_job |-> xxl_job]
      BY Zenon DEF XxlJob
    <2>. HIDE DEF xxl_job
    <2>. QED  BY <2>1, <2>2 DEF WellBuiltTable
  <1>5. WellBuiltTable("service", OssUpload)
    <2>1. <<Check, Ask>> \in Seq(Sound)
      BY KnownSteps
    <2>2. <<Check, Ask, Save>> = Append(<<Check, Ask>>, Save)
      OBVIOUS
    <2>3. /\ WellBuilt(<<"service", "oss_upload">>, <<Check, Ask, Save>>)
          /\ WellBuilt(<<"service", "oss_upload_stream">>, <<Check, Ask, Save>>)
      BY <2>1, <2>2, SaveAfterSound
    <2>. QED  BY <2>3 DEF OssUpload, WellBuiltTable
  <1>6. WellBuiltTable("service", OssDownload)
    <2>1. /\ <<Check, Ask, Act>> \in Seq(Sound)
          /\ SoundSteps(<<Check, Ask>>)
      BY KnownSteps DEF SoundSteps
    <2>2. <<Check, Ask, Act, Save>> = Append(<<Check, Ask, Act>>, Save)
      OBVIOUS
    <2>3. /\ WellBuilt(<<"service", "oss_download">>, <<Check, Ask, Act, Save>>)
          /\ WellBuilt(<<"service", "oss_delete">>, <<Check, Ask>>)
      BY <2>1, <2>2, SaveAfterSound, SoundIsWellBuilt
    <2>. QED  BY <2>3 DEF OssDownload, WellBuiltTable
  <1>7. SoundTable(Redis) /\ SoundTable(MongoDB)
    <2>1. SoundSteps(<<Raising(Never)>>)
      BY KnownSteps DEF SoundSteps
    <2>. QED  BY <2>1 DEF SoundTable, Redis, MongoDB
  <1>. QED  BY <1>1, <1>2, <1>3, <1>4, <1>5, <1>6, <1>7, SoundTableIsWellBuilt, Merged
            DEF Services, Oss

LEMMA ComputationsAreWellBuilt == WellBuiltTable("compute", Computations)
  <1>1. /\ SoundSteps(<<Look>>)
        /\ SoundSteps(<<Raising(Check)>>)
        /\ SoundSteps(<< >>)
        /\ SoundSteps(<<Raising(Never)>>)
    BY KnownSteps DEF SoundSteps
  <1>2. /\ SoundTable(Condition)
        /\ SoundTable(Sleep)
        /\ SoundTable(LogMessage)
        /\ SoundTable(SubWorkflow)
    BY <1>1 DEF SoundTable, Condition, Sleep, LogMessage, SubWorkflow
  <1>3. WellBuiltTable("compute", Script)
    <2>. DEFINE script == ScriptCheck \o ScriptRun
                script_sets == ScriptCheck \o <<Save>> \o ScriptRun
    <2>1. SoundSteps(ScriptCheck \o ScriptRun)
      BY KnownSteps DEF SoundSteps, ScriptCheck, ScriptRun
    <2>2. /\ WellBuilt(<<"compute", "script">>, script)
          /\ WellBuilt(<<"compute", "script_sets">>, script_sets)
      BY <2>1, ScriptSets, SoundIsWellBuilt
    <2>3. Script = [script |-> script, script_sets |-> script_sets]
      BY Zenon DEF Script
    <2>. HIDE DEF script, script_sets
    <2>. QED  BY <2>2, <2>3 DEF WellBuiltTable
  <1>4. WellBuiltTable("compute", Assertion)
    <2>. DEFINE assertion == <<Raising(Check)>> \o Twice(AssertionRule)
    <2>1. SoundSteps(<<Raising(Check)>> \o Twice(AssertionRule))
      BY KnownSteps DEF SoundSteps, AssertionRule, Twice
    <2>2. WellBuilt(<<"compute", "assertion">>, assertion)
      BY <2>1, SoundIsWellBuilt
    <2>3. Assertion = [assertion |-> assertion]
      BY Zenon DEF Assertion
    <2>. HIDE DEF assertion
    <2>. QED  BY <2>2, <2>3 DEF WellBuiltTable
  <1>5. WellBuiltTable("compute", Extraction)
    <2>. DEFINE variable_extractor == <<Raising(Check)>> \o Twice(<<Raising(Look), Save>>)
    <2>1. WellBuilt(<<"compute", "variable_extractor">>, variable_extractor)
      BY TwoExtractions
    <2>2. Extraction = [variable_extractor |-> variable_extractor]
      BY Zenon DEF Extraction
    <2>. HIDE DEF variable_extractor
    <2>. QED  BY <2>1, <2>2 DEF WellBuiltTable
  <1>. QED  BY <1>2, <1>3, <1>4, <1>5, SoundTableIsWellBuilt, Merged DEF Computations

LEMMA OperationsAreWellBuilt ==
    ASSUME NEW id \in Operations
    PROVE  WellBuilt(id, Handlers[id[1]][id[2]])
  <1>1. \A p \in DOMAIN Handlers : WellBuiltTable(p, Handlers[p])
    BY ActionsAreWellBuilt, ElementsAreWellBuilt, NavigationsAreWellBuilt, WaitsAreWellBuilt,
       ValidationsAreWellBuilt, ScreenshotsAreWellBuilt, AllSmartWaitsAreWellBuilt,
       AdvancedToolsAreWellBuilt, AssistedToolsAreWellBuilt, ResponsiveToolsAreWellBuilt,
       VisualToolsAreWellBuilt, PerformanceToolsAreWellBuilt, ObservabilityToolsAreWellBuilt,
       RecordingToolsAreWellBuilt, ServicesAreWellBuilt, ComputationsAreWellBuilt
       DEF Handlers
  <1>2. PICK p \in Processors : \E o \in DOMAIN Handlers[p] : id = <<p, o>>
    BY DEF Operations
  <1>. PICK o \in DOMAIN Handlers[p] : id = <<p, o>>
    BY <1>2
  <1>3. WellBuilt(<<p, o>>, Handlers[p][o])
    BY <1>1, HandlersAssumption DEF WellBuiltTable
  <1>. QED  BY <1>3

-----------------------------------------------------------------------------
(* The run of a handler *)

WalkType ==
    /\ op \in Operations
    /\ stepNr \in Nat \ {0}
    /\ answer \in {"none", "error", "raise", "success"}

\* What was passed over undone was denied, and the reply that says so is
\* still to be read.
DoneWalk ==
    op \notin SucceedInVain /\ undone =>
        /\ denied
        /\ answer # "success"
        /\ answer = "none" =>
              \E j \in DOMAIN Steps :
                  j >= stepNr /\ Steps[j].kind = "reply" /\ Steps[j].fails # "next"

SavedWalk ==
    op \notin SaveTooEarly /\ saved =>
        /\ answer \in {"none", "success"}
        /\ \E i \in DOMAIN Steps : i < stepNr /\ Steps[i].kind = "save"

WalkInv == WalkType /\ DoneWalk /\ SavedWalk

LEMMA WalkStart == HandlersInit => WalkInv
  <1>. SUFFICES ASSUME HandlersInit
                PROVE  WalkInv
    OBVIOUS
  <1>1. ~undone /\ ~saved
    BY Zenon DEF HandlersInit
  <1>. QED  BY <1>1 DEF HandlersInit, WalkInv, WalkType, DoneWalk, SavedWalk

\* What a step finds before it.
LEMMA NextStep ==
    ASSUME WalkInv
    PROVE  /\ WellBuilt(op, Steps)
           /\ Steps \in Seq(StepType)
           /\ Running => stepNr \in DOMAIN Steps /\ Step \in StepType
  <1>1. WellBuilt(op, Steps) /\ Steps \in Seq(StepType)
    BY OperationsAreWellBuilt DEF WalkInv, WalkType, Steps, WellBuilt
  <1>. QED  BY <1>1 DEF WalkInv, WalkType, Running, Step

LEMMA WalkStep == WalkInv /\ [HandlersNext]_handlerVars => WalkInv'
  <1>. SUFFICES ASSUME WalkInv, [HandlersNext]_handlerVars
                PROVE  WalkInv'
    OBVIOUS
  <1>1. CASE UNCHANGED handlerVars
    BY <1>1 DEF handlerVars, WalkInv, WalkType, DoneWalk, SavedWalk,
                Steps
  <1>. SUFFICES ASSUME HandlersNext
                PROVE  WalkInv'
    BY <1>1
  <1>2. op' = op /\ Steps' = Steps
    BY DEF HandlersNext, PageDisappears, StepWorks, StepFails, ServiceDenies, Succeeds, Steps
  <1>3. CASE PageDisappears
    BY <1>2, <1>3 DEF PageDisappears, WalkInv, WalkType, DoneWalk, SavedWalk
  <1>4. CASE StepWorks
    <2>1. WalkType'
      BY <1>4 DEF StepWorks, WalkInv, WalkType
    <2>2. /\ stepNr' = stepNr + 1 /\ denied' = denied /\ answer' = "none"
          /\ answer = "none" /\ stepNr \in DOMAIN Steps
          /\ Step.kind = "reply" => ~denied
          /\ \A i \in DOMAIN Steps : i \in Nat
      BY <1>4, NextStep DEF StepWorks, Running
    <2>3. DoneWalk'
      <3>1. op \notin SucceedInVain => Step.kind # "omitted"
        BY <1>4, NextStep DEF StepWorks, WellBuilt, OwnsUp, Step
      <3>2. undone' => undone \/ Step.kind = "omitted"
        BY <1>4, Zenon DEF StepWorks
      <3>. QED  BY <1>2, <2>2, <3>1, <3>2 DEF WalkInv, WalkType, DoneWalk, Step
    <2>4. SavedWalk'
      <3>1. saved' => saved \/ Step.kind = "save"
        BY <1>4, Zenon DEF StepWorks
      <3>. QED  BY <1>2, <2>2, <3>1 DEF WalkInv, WalkType, SavedWalk, Step
    <2>. QED  BY <2>1, <2>3, <2>4 DEF WalkInv
  <1>5. ASSUME NEW done \in BOOLEAN, StepFails(done)
        PROVE  WalkInv'
    <2>1. Step \in StepType /\ stepNr \in DOMAIN Steps
      BY <1>5, NextStep DEF StepFails
    <2>2. WalkType'
      BY <1>5, <2>1 DEF StepFails, Failed, WalkInv, WalkType, StepType
    <2>3. DoneWalk'
      <3>1. op \notin SucceedInVain /\ Step.fails = "next" =>
               Step.kind \notin {"act", "ask", "holds"}
        BY <2>1, NextStep DEF WellBuilt, OwnsUp, Step
      <3>2. Step.fails = "next" /\ undone' => undone \/ Step.kind \in {"act", "ask", "holds"}
        BY <1>5, Zenon DEF StepFails, Failed
      <3>3. CASE Step.fails = "next"
        BY <1>2, <1>5, <2>1, <3>1, <3>2, <3>3
           DEF StepFails, Failed, Running, WalkInv, WalkType, DoneWalk, Step
      <3>4. CASE Step.fails # "next"
        BY <1>2, <1>5, <2>1, <3>4
           DEF StepFails, Failed, Running, WalkInv, WalkType, DoneWalk, StepType
      <3>. QED  BY <3>3, <3>4
    <2>4. SavedWalk'
      <3>1. op \notin SaveTooEarly /\ saved => Step.fails = "next"
        BY <1>5, <2>1, NextStep
           DEF StepFails, WalkInv, WalkType, SavedWalk, WellBuilt, SavesLast, Step
      <3>. QED  BY <1>2, <1>5, <3>1
                   DEF StepFails, Failed, Running, WalkInv, WalkType, SavedWalk
    <2>. QED  BY <2>2, <2>3, <2>4 DEF WalkInv
  <1>6. CASE ServiceDenies
    <2>1. Step \in StepType /\ stepNr \in DOMAIN Steps /\ Step.kind = "ask"
      BY <1>6, NextStep DEF ServiceDenies
    <2>2. WalkType'
      BY <1>6, <2>1 DEF ServiceDenies, Failed, WalkInv, WalkType, StepType
    <2>3. DoneWalk'
      <3>1. op \notin SucceedInVain =>
               /\ Step.fails # "next"
               /\ ~Step.sees => ReadBehind(Steps, stepNr)
        BY <2>1, NextStep DEF WellBuilt, OwnsUp, Step
      <3>2. CASE Step.sees
        BY <1>2, <1>6, <2>1, <3>1, <3>2
           DEF ServiceDenies, Failed, DoneWalk, StepType
      <3>3. CASE ~Step.sees
        BY <1>2, <1>6, <2>1, <3>1, <3>3
           DEF ServiceDenies, Running, WalkInv, WalkType, DoneWalk, ReadBehind
      <3>. QED  BY <3>2, <3>3
    <2>4. SavedWalk'
      <3>1. op \notin SaveTooEarly /\ saved => Step.fails = "next"
        BY <2>1, NextStep DEF WalkInv, WalkType, SavedWalk, WellBuilt, SavesLast, Step
      <3>. QED  BY <1>2, <1>6, <3>1
                   DEF ServiceDenies, Failed, Running, WalkInv, WalkType, SavedWalk
    <2>. QED  BY <2>2, <2>3, <2>4 DEF WalkInv
  <1>7. CASE Succeeds
    <2>1. ~(op \notin SucceedInVain /\ undone)
      BY <1>7, NextStep DEF Succeeds, WalkInv, WalkType, DoneWalk
    <2>. QED  BY <1>2, <1>7, <2>1
                 DEF Succeeds, WalkInv, WalkType, DoneWalk, SavedWalk
  <1>. QED  BY <1>3, <1>4, <1>5, <1>6, <1>7 DEF HandlersNext

THEOREM WalkIsInvariant == HandlersSpec => []WalkInv
  BY WalkStart, WalkStep, PTL DEF HandlersSpec

\* A node that succeeds has done what its handler went past, unless it is one
\* of those that succeed in vain.
THEOREM SuccessesAreDone ==
    HandlersSpec => [](op \notin SucceedInVain => SuccessMeansDone)
  <1>1. WalkInv => (op \notin SucceedInVain => SuccessMeansDone)
    BY DEF WalkInv, DoneWalk, SuccessMeansDone
  <1>. QED  BY <1>1, WalkIsInvariant, PTL

\* A variable is left behind only by a node that succeeds, unless it is one of
\* the five that set it too early.
THEOREM VariablesMeanSuccess ==
    HandlersSpec => [](op \notin SaveTooEarly => VariableMeansSuccess)
  <1>1. WalkInv => (op \notin SaveTooEarly => VariableMeansSuccess)
    BY DEF WalkInv, WalkType, SavedWalk, VariableMeansSuccess
  <1>. QED  BY <1>1, WalkIsInvariant, PTL
=============================================================================
