---------------------------- MODULE NodeHandlers ----------------------------
(***************************************************************************)
(* One node of a workflow at the level of its processor: the engine calls  *)
(* it, the handler runs its steps, the engine reads the answer.  Every     *)
(* step meets what it may meet: the page is closed by another engine       *)
(* thread, a call raises before or after it took effect, a service answers *)
(* an error, a condition does not hold.                                    *)
(***************************************************************************)
EXTENDS UIHandlers, UIToolHandlers, ServiceHandlers, FiniteSets

Handlers ==
    [action |-> Actions, element |-> Elements, navigation |-> Navigations, wait |-> Waits,
     validation |-> Validations, screenshot |-> Screenshots, smart_wait |-> AllSmartWaits,
     advanced_ui |-> AdvancedTools, ai_assisted |-> AssistedTools,
     responsive |-> ResponsiveTools, visual |-> VisualTools,
     performance |-> PerformanceTools, observability |-> ObservabilityTools,
     recording |-> RecordingTools, service |-> Services, compute |-> Computations]

CONSTANTS
    Processors,  \* the processors whose nodes run
    WithKnown    \* whether the operations known to break their contract run

ASSUME HandlersAssumption == Processors \subseteq DOMAIN Handlers /\ WithKnown \in BOOLEAN

Operations == UNION {{<<p, o>> : o \in DOMAIN Handlers[p]} : p \in Processors}

\* Nodes that succeed although what they are for was not done.
SucceedInVain ==
    {<<"action", "cli_action">>, <<"action", "api_action">>,
     <<"action", "scroll_elsewhere">>, <<"element", "key_press">>,
     <<"navigation", "navigate">>, <<"wait", "wait_for_network_request">>,
     <<"validation", "email">>, <<"validation", "network_request">>,
     <<"validation", "element_visualization">>, <<"validation", "viewport_visualization">>,
     <<"validation", "full_page_visualization">>, <<"validation", "page_accessibility">>,
     <<"validation", "element_accessibility">>, <<"smart_wait", "smart_wait">>,
     <<"smart_wait", "retry_operation">>, <<"advanced_ui", "visual_validation">>,
     <<"advanced_ui", "accessibility_testing">>, <<"advanced_ui", "network_monitoring">>,
     <<"advanced_ui", "iframe_switch_to">>, <<"advanced_ui", "iframe_switch_back">>,
     <<"advanced_ui", "iframe_other">>, <<"advanced_ui", "shadow_dom_other">>,
     <<"responsive", "test_unknown_layout">>, <<"responsive", "capture_unknown_device">>,
     <<"visual", "visual_compare">>, <<"visual", "element_compare">>,
     <<"visual", "full_page_compare">>, <<"visual", "get_comparison_report">>,
     <<"performance", "measure_other_interaction">>,
     <<"performance", "generate_performance_report">>, <<"observability", "start_monitoring">>,
     <<"observability", "stop_monitoring">>, <<"observability", "save_diagnostic_report">>,
     <<"service", "dubbo">>}
    \cup {<<"recording", o>> : o \in {"stop_recording", "record_click", "record_double_click",
              "record_right_click", "record_scroll", "record_set_text", "record_file_upload",
              "record_file_drop", "record_key_press", "record_download",
              "get_recorded_steps"}}

\* Nodes that fail and leave a variable behind.
SaveTooEarly ==
    {<<"recording", "stop_recording">>, <<"service", "rocketmq_output">>,
     <<"service", "xxl_job">>, <<"compute", "script_sets">>,
     <<"compute", "variable_extractor">>}

Known == SucceedInVain \cup SaveTooEarly

VARIABLES
    op,      \* the node: its processor and operation
    stepNr,  \* the step it is at
    page,    \* whether ui_manager has its page
    undone,  \* history: the handler went on past something not done
    denied,  \* history: a service answered an error nobody has read
    saved,   \* history: a variable was set
    answer   \* what the engine gets

handlerVars == <<op, stepNr, page, undone, denied, saved, answer>>

Steps == Handlers[op[1]][op[2]]
Step == Steps[stepNr]

HandlersInit ==
    /\ op \in (IF WithKnown THEN Operations ELSE Operations \ Known)
    /\ stepNr = 1
    /\ page \in BOOLEAN
    /\ undone = FALSE
    /\ denied = FALSE
    /\ saved = FALSE
    /\ answer = "none"

Running == answer = "none" /\ stepNr <= Len(Steps)

\* Close operations of other threads (UISession) take the page away.
PageDisappears ==
    /\ Running
    /\ page
    /\ page' = FALSE
    /\ UNCHANGED <<op, stepNr, undone, denied, saved, answer>>

\* The call does what it is for.
StepWorks ==
    /\ Running
    /\ Step.kind # "never"
    /\ Step.kind = "page" => page
    /\ Step.kind = "reply" => ~denied
    /\ stepNr' = stepNr + 1
    /\ undone' = (undone \/ Step.kind = "omitted")
    /\ saved' = (saved \/ Step.kind = "save")
    /\ UNCHANGED <<op, page, denied, answer>>

\* The call failed: the handler answers, or goes on as if nothing was.
Failed(done) ==
    IF Step.fails = "next"
    THEN /\ stepNr' = stepNr + 1
         /\ undone' = (undone \/ (~done /\ Step.kind \in {"act", "ask", "holds"}))
         /\ UNCHANGED answer
    ELSE /\ answer' = Step.fails
         /\ UNCHANGED <<stepNr, undone>>

\* It raises.  What it was for may have happened before it did.
StepFails(done) ==
    /\ Running
    /\ Step.kind \notin {"save", "omitted"}
    /\ Step.kind = "page" => ~page
    /\ Step.kind = "reply" => denied
    /\ done => Step.kind \in {"act", "ask"}
    /\ Failed(done)
    /\ UNCHANGED <<op, page, denied, saved>>

\* The service answers that it failed.
ServiceDenies ==
    /\ Running
    /\ Step.kind = "ask"
    /\ denied' = TRUE
    /\ IF Step.sees THEN Failed(FALSE)
       ELSE /\ stepNr' = stepNr + 1
            /\ undone' = TRUE
            /\ UNCHANGED answer
    /\ UNCHANGED <<op, page, saved>>

\* At the end of the try block.
Succeeds ==
    /\ answer = "none"
    /\ stepNr > Len(Steps)
    /\ answer' = "success"
    /\ UNCHANGED <<op, stepNr, page, undone, denied, saved>>

HandlersNext ==
    \/ PageDisappears
    \/ StepWorks
    \/ \E done \in BOOLEAN : StepFails(done)
    \/ ServiceDenies
    \/ Succeeds

HandlersSpec == HandlersInit /\ [][HandlersNext]_handlerVars

-----------------------------------------------------------------------------
\* A node that succeeds has done every act, asked every request with success
\* and seen every condition hold that its handler went past.
SuccessMeansDone == answer = "success" => ~undone

\* A variable a node sets (set_variable) is left behind only by a node that
\* succeeds.
VariableMeansSuccess == saved /\ answer # "none" => answer = "success"
=============================================================================
