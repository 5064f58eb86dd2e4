----------------------------- MODULE UIHandlers -----------------------------
(***************************************************************************)
(* The handlers of the UI processors: per operation of a node its steps.   *)
(***************************************************************************)
EXTENDS HandlerSteps

-----------------------------------------------------------------------------
(* action_processor.py *)

HoverAndExtract ==
    [hover |-> ActOnPage,
     extract_value |-> <<Page, Check, Look, Save>>,
     generate_email |-> <<Save>>]

CookieActions ==
    [set_cookie |-> ActOnPage,
     get_cookie |-> <<Page, Look, Save>>]

\* Behind goto, run_async is given functions that return no coroutine.  A
\* command's exit status is not looked at.
PageAndShellActions ==
    [navigation |-> <<Page, Act, Never, Never>>,
     custom_action |-> ActOnPage,
     cli_action |-> <<Check, Unread(Ask), Save>>]

ApiAndRefreshActions ==
    [api_action |-> <<Unread(Ask), Check, Save>>,
     refresh |-> <<Page, Act, Never, Never>>]

GeneratedValues ==
    [generate_random |-> <<Check, Save>>,
     generate_date |-> <<Check, Save>>]

\* Without a selector only the four directions scroll.
DragAndScroll ==
    [drag_drop |-> ActOnPage,
     scroll |-> ActOnPage,
     scroll_elsewhere |-> <<Page, Omitted>>]
KeysAndFiles == [key_press |-> ActOnPage, file_upload |-> ActOnPage, auto_scroll |-> ActOnPage]
Shortcuts == [keyboard_shortcut |-> ActOnPage]

Actions ==
    HoverAndExtract ++ CookieActions ++ PageAndShellActions ++ ApiAndRefreshActions
    ++ GeneratedValues ++ DragAndScroll ++ KeysAndFiles ++ Shortcuts

-----------------------------------------------------------------------------
(* element_processor.py *)

ClickElement == [click |-> <<Page, Check, Try(Look), Try(Look), Act>>]

InputAndText ==
    [input |-> <<Page, Check, Try(Look), Try(Look), Act, Act>>,
     get_text |-> <<Page, Check, Look>>]

\* A plausible slip: hover is not awaited.
AttributeAndHoverUnawaited ==
    [get_attribute |-> <<Page, Check, Look>>,
     hover |-> <<Page, Check, Omitted>>]

AttributeAndHover ==
    [get_attribute |-> <<Page, Check, Look>>,
     hover |-> <<Page, Check, Act>>]

ElementClicks == [double_click |-> <<Page, Check, Act>>, right_click |-> <<Page, Check, Act>>]
OptionAndFile == [select_option |-> <<Page, Check, Act>>, upload_file |-> <<Page, Check, Act>>]

\* element.press is a coroutine nobody awaits; it has no argument modifiers.
ElementKeyPress ==
    [key_press |-> <<Page, Check, Look, Omitted>>,
     key_press_modified |-> <<Page, Check, Look, Never>>]

Elements ==
    ClickElement ++ InputAndText ++ AttributeAndHover ++ ElementClicks
    ++ OptionAndFile ++ ElementKeyPress

-----------------------------------------------------------------------------
(* navigation_processor.py *)

\* The context and the page are looked up, else made: new_context and
\* new_page answer their failure in a dict nobody reads, but get_page then
\* finds no page.
Navigate ==
    [navigate |-> <<Check, Try(Act), Try(Act), Page, Try(Act), Act, Look>>]

History ==
    [go_back |-> ActAndLook, go_forward |-> ActAndLook, refresh |-> ActAndLook]

NavigationWaits ==
    [wait_for_url |-> HoldsOnPage, wait_for_load |-> <<Page, Holds, Look>>]

Navigations == Navigate ++ History ++ NavigationWaits

-----------------------------------------------------------------------------
(* wait_processor.py *)

\* With a selector the text is waited for with an argument that does not
\* exist; the URL is read by way of a function that returns no coroutine.
WaitForElementAndText ==
    [wait_for_element |-> <<Page, Check, Holds, Look, Look>>,
     wait_for_text |-> HoldsOnPage,
     wait_for_text_in_element |-> <<Page, Check, Never>>]

WaitForUrlAndNetwork ==
    [wait_for_url |-> <<Page, Holds, Never>>,
     wait_for_network |-> HoldsOnPage,
     wait_for_condition |-> HoldsOnPage]

WaitForTimeAndFile == [wait_for_time |-> << >>, wait_for_download |-> <<Holds>>]

WaitForDisplay ==
    [wait_for_element_visualization |-> <<Page, Check, Holds>>,
     wait_for_viewport_visualization |-> HoldsOnPage,
     wait_for_full_page_visualization |-> HoldsOnPage]

\* No request is waited for: at most five seconds of sleep.
WaitForPageAndRequest ==
    [wait_for_page_load |-> HoldsOnPage, wait_for_network_request |-> <<Page, Omitted>>]

Waits ==
    WaitForElementAndText ++ WaitForUrlAndNetwork ++ WaitForTimeAndFile
    ++ WaitForDisplay ++ WaitForPageAndRequest

-----------------------------------------------------------------------------
(* validation_processor.py *)

ElementValidations ==
    [element_visible |-> VerifyOnPage,
     element_not_visible |-> VerifyOnPage,
     element_text |-> VerifyOnPage]

AttributeValidations == [css_property |-> VerifyOnPage, html_attribute |-> VerifyOnPage]
ButtonValidations == [checkbox |-> VerifyOnPage, radio_button |-> VerifyOnPage]

\* Of an e-mail nothing is looked at.
FileAndEmailValidations == [download |-> <<Look, Holds>>, email |-> <<Omitted>>]

ResponseValidation == [api_response |-> <<Check, Holds>>]

\* A screenshot is taken and a reference file must exist: they are not
\* compared.
PictureValidations ==
    [element_visualization |-> <<Page, Look, Check, Omitted>>,
     viewport_visualization |-> <<Page, Look, Check, Omitted>>,
     full_page_visualization |-> <<Page, Look, Check, Omitted>>]

\* _check_accessibility_issues finds none; the issues of an element are
\* reported with success.
AccessibilityValidations ==
    [page_accessibility |-> <<Page, Look, Omitted>>,
     element_accessibility |-> <<Page, Look, Look, Look, Try(Holds)>>]

RequestAndCustomValidations ==
    [network_request |-> <<Page, Omitted>>,
     custom_validation |-> <<Page, Act, Holds>>]

Validations ==
    ElementValidations ++ AttributeValidations ++ ButtonValidations
    ++ FileAndEmailValidations ++ ResponseValidation ++ PictureValidations
    ++ AccessibilityValidations ++ RequestAndCustomValidations

-----------------------------------------------------------------------------
(* screenshot_processor.py, smart_wait_processor.py *)

PageAndElementScreenshots ==
    [page_screenshot |-> <<Page, Check, Act>>, element_screenshot |-> <<Page, Check, Act>>]
ViewportScreenshots ==
    [viewport_screenshot |-> <<Page, Check, Act>>, full_page_screenshot |-> <<Page, Check, Act>>]

Screenshots == PageAndElementScreenshots ++ ViewportScreenshots

\* _smart_retry tries again; the last attempt decides.
SmartElementWaits == [element_visible |-> HoldsOnPage, element_hidden |-> HoldsOnPage]

SmartNetworkWaits ==
    [network_idle |-> HoldsOnPage, ajax_complete |-> HoldsOnPage, custom_condition |-> HoldsOnPage]

\* Each wait of smart_wait has a try of its own; retry_operation runs no
\* operation.
SmartWaits ==
    [smart_wait |-> <<Page, Try(Holds), Try(Holds), Try(Holds)>>,
     retry_operation |-> <<Omitted>>]

AllSmartWaits == SmartElementWaits ++ SmartNetworkWaits ++ SmartWaits
=============================================================================
