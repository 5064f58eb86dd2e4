--------------------------- MODULE UIToolHandlers ---------------------------
(***************************************************************************)
(* The handlers of the UI processors that test, measure and record pages:  *)
(* per operation of a node its steps.                                      *)
(***************************************************************************)
EXTENDS HandlerSteps

-----------------------------------------------------------------------------
(* advanced_ui_processor.py *)

\* The picture is compared with a random number, and reported with success.
TextAndPicture ==
    [dynamic_text_input |-> ActOnPage,
     visual_validation |-> <<Page, Act, Omitted>>]

\* Issues are never found; of the network only listeners are registered.
PageAudits ==
    [accessibility_testing |-> <<Page, Look, Omitted>>,
     network_monitoring |-> <<Page, Forgotten>>]

\* The frame is not switched to: the page is put into a variable.  Another
\* action than the two (get_content) returns None, which the engine reads as
\* a success.
TimingsAndFrames ==
    [performance_testing |-> <<Page, Look, Look, Look>>,
     iframe_switch_to |-> <<Page, Save, Omitted>>,
     iframe_switch_back |-> <<Page, Omitted>>,
     iframe_other |-> <<Page, Omitted>>]

\* The handle of the shadow root is a coroutine nobody awaits; only "access"
\* calls it.
ShadowAndLocators ==
    [shadow_dom |-> <<Page, Never>>,
     shadow_dom_other |-> <<Page, Omitted>>,
     locator_improvement |-> <<Page, Check>>]

AdvancedTools == TextAndPicture ++ PageAudits ++ TimingsAndFrames ++ ShadowAndLocators

-----------------------------------------------------------------------------
(* ai_assisted_processor.py *)

FoundByDescription == [find_by_description |-> <<Page, Look, Check, Look, Holds>>]
HealedSelector == [auto_heal_selector |-> <<Page, Look, Check, Look, Holds>>]
IntelligentWait == [intelligent_wait |-> HoldsOnPage]

\* page.evaluate is given one argument too many.
PageStructure ==
    [suggest_selectors |-> LookAtPage,
     analyze_page_structure |-> LookAtPage,
     semantic_search |-> <<Page, Never>>]

AssistedTools == FoundByDescription ++ HealedSelector ++ IntelligentWait ++ PageStructure

-----------------------------------------------------------------------------
(* responsive_processor.py *)

\* One device: viewport, headers, goto, wait, screenshot, analysis.  Devices
\* the presets do not have are passed over (a node may name no other).
OneDevice == <<Act, Act, Act, Look, Act, Look>>

DeviceLayouts ==
    [test_responsive_layout |-> <<Page>> \o Twice(OneDevice),
     test_unknown_layout |-> <<Page, Omitted>>,
     set_viewport |-> ActOnPage]

DeviceTests ==
    [test_device |-> <<Check, Page>> \o OneDevice,
     capture_multi_device |-> <<Page>> \o Twice(OneDevice),
     capture_unknown_device |-> <<Page, Omitted>>]

OrientationTest == [test_orientation |-> <<Check, Page, Act, Act, Act, Act, Act, Act>>]
BreakpointTest == [test_breakpoints |-> <<Page>> \o Twice(<<Act, Act, Act, Look>>)]

ResponsiveTools == DeviceLayouts ++ DeviceTests ++ OrientationTest ++ BreakpointTest

-----------------------------------------------------------------------------
(* visual_regression_processor.py *)

Baseline == [capture_baseline |-> <<Page, Act, Act>>]

\* A picture that differs is answered with status "warning".
Comparison == [visual_compare |-> <<Page, Check, Act, Look, Try(Holds)>>]

ComparisonVariants ==
    [update_baseline |-> Baseline.capture_baseline,
     element_compare |-> Comparison.visual_compare,
     full_page_compare |-> Comparison.visual_compare]

ComparisonReport == [get_comparison_report |-> <<Forgotten, Act>>]

VisualTools == Baseline ++ Comparison ++ ComparisonVariants ++ ComparisonReport

-----------------------------------------------------------------------------
(* performance_processor.py *)

\* A threshold that is exceeded makes the status "warning".
PageLoad == [measure_page_load |-> <<Page, Act, Look, Try(Check)>>]
PageMetrics == [get_performance_metrics |-> LookAtPage, monitor_network_timing |-> LookAtPage]

\* Only "click" and "input" touch the element.
ResourceMetrics ==
    [analyze_resource_loading |-> LookAtPage,
     measure_interaction_time |-> ActAndLook,
     measure_other_interaction |-> <<Page, Omitted, Look>>]

PerformanceReport ==
    [get_lighthouse_metrics |-> LookAtPage, generate_performance_report |-> <<Forgotten, Act>>]

PerformanceTools == PageLoad ++ PageMetrics ++ ResourceMetrics ++ PerformanceReport

-----------------------------------------------------------------------------
(* observability_processor.py *)

Diagnostic ==
    [capture_diagnostic |-> <<Page, Look, Act, Look, Act, Try(Look), Try(Look), Try(Look)>>]

Monitoring == [start_monitoring |-> <<Page, Forgotten>>, stop_monitoring |-> <<Forgotten>>]

PageRecords ==
    [get_console_logs |-> <<Page, Try(Look)>>, get_network_requests |-> <<Page, Try(Look)>>]

DiagnosticReport ==
    [get_performance_metrics |-> <<Page, Try(Look)>>, save_diagnostic_report |-> <<Forgotten, Act>>]

ObservabilityTools == Diagnostic ++ Monitoring ++ PageRecords ++ DiagnosticReport

-----------------------------------------------------------------------------
(* recording_processor.py: the state of the recording is a variable of the  *)
(* workflow, its steps are not.                                             *)

StartAndStop ==
    [start_recording |-> <<Save>>,
     stop_recording |-> <<Check, Forgotten, Save, Act>>]

\* The variable recording_state is changed in place.
PauseAndResume == [pause_recording |-> <<Check, Save>>, resume_recording |-> <<Check, Save>>]

RecordedClicks ==
    [record_click |-> <<Check, Forgotten>>,
     record_double_click |-> <<Check, Forgotten>>,
     record_right_click |-> <<Check, Forgotten>>]

RecordedInputs ==
    [record_scroll |-> <<Check, Forgotten>>,
     record_set_text |-> <<Check, Forgotten>>,
     record_file_upload |-> <<Check, Forgotten>>]

RecordedFiles ==
    [record_file_drop |-> <<Check, Forgotten>>,
     record_key_press |-> <<Check, Forgotten>>,
     record_download |-> <<Check, Forgotten>>]

\* The steps of a processor made for this node: none.
RecordedSteps == [get_recorded_steps |-> <<Check, Forgotten>>]

RecordingTools ==
    StartAndStop ++ PauseAndResume ++ RecordedClicks ++ RecordedInputs
    ++ RecordedFiles ++ RecordedSteps
=============================================================================
