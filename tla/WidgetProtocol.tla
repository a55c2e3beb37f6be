--------------------------- MODULE WidgetProtocol ---------------------------
(***************************************************************************)
(* The JSON wire between a dialog plugin and its host, in both directions: *)
(* the plugin describes its widgets with WidgetData setters, the host      *)
(* reads them through WidgetDataView getters; the host builds events with  *)
(* WidgetEventBuilder, the plugin reads them through WidgetEvent and       *)
(* DialogPluginTyped dispatches them to one typed handler.                 *)
(*                                                                         *)
(* A JSON node is [t, v]: its type and its value.  A string is a [s, utf8] *)
(* pair (the characters are not modelled, only whether they are valid      *)
(* UTF-8), a double is <<n>> (n halves) or <<>> for a NaN or an infinity,  *)
(* an object is a function from its keys.  An optional is <<>> or <<v>>.   *)
(***************************************************************************)
EXTENDS Integers, Sequences, SequencesExt, TLC

JString(s) == [t |-> "string", v |-> s]
JInt(i) == [t |-> "int", v |-> i]
JFloat(d) == [t |-> "float", v |-> d]
JBool(b) == [t |-> "bool", v |-> b]
JNull == [t |-> "null", v |-> <<>>]
JArray(s) == [t |-> "array", v |-> s]
JObject(f) == [t |-> "object", v |-> f]

Txt(s) == [s |-> s, utf8 |-> TRUE]
BadUtf8 == [s |-> "bad", utf8 |-> FALSE]
NaN == <<>>
Strings(seq) == JArray([i \in DOMAIN seq |-> JString(seq[i])])
Ints(seq) == JArray([i \in DOMAIN seq |-> JInt(seq[i])])

\* json::dump: a string that is not UTF-8 makes it throw, a double that is
\* not finite is written as null; json::parse restores everything else.
RECURSIVE throws(_), dumped(_)
throws(j) ==
    CASE j.t = "string" -> ~j.v.utf8
      [] j.t = "array"  -> \E i \in DOMAIN j.v : throws(j.v[i])
      [] j.t = "object" -> \E k \in DOMAIN j.v : throws(j.v[k])
      [] OTHER          -> FALSE
dumped(j) ==
    CASE j.t = "float" /\ j.v = NaN -> JNull
      [] j.t = "array"  -> JArray([i \in DOMAIN j.v |-> dumped(j.v[i])])
      [] j.t = "object" -> JObject([k \in DOMAIN j.v |-> dumped(j.v[k])])
      [] OTHER          -> j

Find(obj, key) == IF key \in DOMAIN obj THEN <<obj[key]>> ELSE <<>>
Typed(node, types) == SelectSeq(node, LAMBDA j : j.t \in types)
Values(nodes) == [i \in DOMAIN nodes |-> nodes[i].v]
ValuesOf(array, types) == Values(Typed(array, types))
AsDouble(j) == IF j.t = "int" THEN <<2 * j.v>> ELSE j.v

----------------------------------------------------------------------------
(* WidgetData: a setter names the fields it assigns in the widget's entry. *)

EmptyData == <<>>

entry(data, name) == IF name \in DOMAIN data THEN data[name].v ELSE <<>>
Assign(data, name, fields) ==
    (name :> JObject(fields @@ entry(data, name))) @@ data

setText(s) == "text" :> JString(s)
setPlaceholder(s) == "placeholder" :> JString(s)
setReadOnly(b) == "read_only" :> JBool(b)
setCurrentIndex(i) == "current_index" :> JInt(i)
setItems(items) == "items" :> Strings(items)
setChecked(b) == "checked" :> JBool(b)
setValueInt(i) == "value" :> JInt(i)
setValueDouble(d) == "value" :> JFloat(d)
setRange(min, max) == ("min" :> JInt(min)) @@ ("max" :> JInt(max))
setListItems(items) == "list_items" :> Strings(items)
setSelectedItems(items) == "selected_items" :> Strings(items)
setTableHeaders(headers) == "headers" :> Strings(headers)
setTableRows(rows) == "rows" :> JArray([i \in DOMAIN rows |-> Strings(rows[i])])
setSelectedRows(rows) == "selected_rows" :> Ints(rows)
setDisabledRows(rows) == "disabled_rows" :> Ints(rows)
setVisibleRows(rows) == "visible_rows" :> Ints(rows)
clearVisibleRows == "visible_rows" :> JNull

\* A member of an object-valued field: the other members stay.
Member(e, field, key, value) ==
    LET old == IF field \in DOMAIN e /\ e[field].t = "object"
               THEN e[field].v ELSE <<>>
    IN field :> JObject((key :> value) @@ old)
\* A slip: the colours of the other rows are forgotten.
setRowColorReplacing(e, row, color) ==
    "row_colors" :> JObject(row :> JString(color))
setRowColor(e, row, color) == Member(e, "row_colors", row, JString(color))
setCellTooltip(e, row, col, tip) ==
    Member(e, "cell_tooltips", <<row, col>>, JString(tip))

\* One series is [label, points, color]; an empty color is not written.
setChartSeries(series) ==
    "chart_series" :> JArray([i \in DOMAIN series |->
        LET s == series[i] IN
        JObject(("label" :> JString(s.label))
               @@ ("points" :> JArray([k \in DOMAIN s.points |->
                      JArray(<<JFloat(s.points[k][1]), JFloat(s.points[k][2])>>)]))
               @@ (IF s.color.s = "" THEN <<>> ELSE "color" :> JString(s.color)))])
clearChart == "chart_series" :> JArray(<<>>)
setChartZoomEnabled(b) == "chart_zoom_enabled" :> JBool(b)
setPlainText(s) == "plain_text" :> JString(s)
setCodeContent(s) == "code_content" :> JString(s)
setCodeLanguage(s) == "code_language" :> JString(s)
setCodeCursor(i) == "code_cursor" :> JInt(i)
setCodeCaretTracking(b) == "code_caret_tracking" :> JBool(b)
setLabel(s) == "label" :> JString(s)
setButtonText(s) == "button_text" :> JString(s)
setButtonIcon(s) == "button_icon_svg" :> JString(s)
setButtonIconNamed(s) == "button_icon_name" :> JString(s)
setShortcut(s) == "shortcut" :> JString(s)
setFilePicker(text, filter, title) ==
    ("button_text" :> JString(text)) @@ ("action" :> JString(Txt("file_picker")))
        @@ ("filter" :> JString(filter)) @@ ("title" :> JString(title))
setFolderPicker(text, title) ==
    ("button_text" :> JString(text)) @@ ("action" :> JString(Txt("folder_picker")))
        @@ ("title" :> JString(title))
setDateTime(iso) == "datetime" :> JString(iso)
setDateTimeRange(min, max) ==
    ("datetime_min" :> JString(min)) @@ ("datetime_max" :> JString(max))
setRangeSliderBounds(min, max) ==
    ("range_min" :> JInt(min)) @@ ("range_max" :> JInt(max))
setRangeSliderValues(lower, upper) ==
    ("range_lower" :> JInt(lower)) @@ ("range_upper" :> JInt(upper))
\* Nanoseconds travel as their decimal text.
setRangeSliderTimeSpan(min, max) ==
    ("range_time_min_ns" :> JString(Txt(ToString(min))))
        @@ ("range_time_max_ns" :> JString(Txt(ToString(max))))
setFieldValid(ok, tip) == ("valid" :> JBool(ok)) @@ ("valid_tooltip" :> JString(tip))
setDateRangePlaceholder(earliest, latest) ==
    ("date_range_earliest" :> JString(earliest))
        @@ ("date_range_latest" :> JString(latest))
setOkEnabled(b) == "ok_enabled" :> JBool(b)
setTabIndex(i) == "tab_index" :> JInt(i)
setEnabled(b) == "enabled" :> JBool(b)
setVisible(b) == "visible" :> JBool(b)
setDropTarget(b) == "drop_target" :> JBool(b)

\* The dialog-level commands are keys of the document, beside the widgets.
RequestAccept(data) == ("__request_accept" :> JBool(TRUE)) @@ data
RequestSubDialog(data, ui) ==
    ("__request_sub_dialog" :> JObject("ui" :> JString(ui))) @@ data
RequestClose(data, reason) == ("__request_close" :> JString(reason)) @@ data
Commands == {"__request_accept", "__request_sub_dialog", "__request_close"}

----------------------------------------------------------------------------
(* WidgetDataView: reading the document, every getter an optional.         *)

widget(doc, name) == Typed(Find(doc, name), {"object"})
field(doc, name, key, types) ==
    LET w == widget(doc, name)
    IN IF w = <<>> THEN <<>> ELSE Typed(Find(w[1].v, key), types)
getString(doc, name, key) == Values(field(doc, name, key, {"string"}))
getInt(doc, name, key) == Values(field(doc, name, key, {"int"}))
getBool(doc, name, key) == Values(field(doc, name, key, {"bool"}))
getDouble(doc, name, key) ==
    LET f == field(doc, name, key, {"int", "float"})
    IN [i \in DOMAIN f |-> AsDouble(f[i])]
\* Elements of another type are skipped.
getArray(doc, name, key, types) ==
    LET f == field(doc, name, key, {"array"})
    IN [i \in DOMAIN f |-> ValuesOf(f[i].v, types)]
getStringArray(doc, name, key) == getArray(doc, name, key, {"string"})

tableRows(doc, name) ==
    LET f == field(doc, name, "rows", {"array"})
    IN IF \E i \in DOMAIN f : \E k \in DOMAIN f[i].v : f[i].v[k].t # "array"
       THEN <<>>
       ELSE [i \in DOMAIN f |->
               [k \in DOMAIN f[i].v |-> ValuesOf(f[i].v[k].v, {"string"})]]
selectedRows(doc, name) == getArray(doc, name, "selected_rows", {"int"})
disabledRows(doc, name) == getArray(doc, name, "disabled_rows", {"int"})
\* Null (clearVisibleRows) reads like an absent field.
visibleRows(doc, name) == getArray(doc, name, "visible_rows", {"int"})

IsPoint(pt) ==
    /\ pt.t = "array" /\ Len(pt.v) = 2
    /\ \A i \in 1..2 : pt.v[i].t \in {"int", "float"}
chartSeriesOf(s) ==
    LET label == ValuesOf(Find(s.v, "label"), {"string"})
        pts == ValuesOf(Find(s.v, "points"), {"array"})
        color == ValuesOf(Find(s.v, "color"), {"string"})
        kept == IF pts = <<>> THEN <<>> ELSE SelectSeq(pts[1], IsPoint)
    IN [label |-> IF label = <<>> THEN Txt("") ELSE label[1],
        points |-> [i \in DOMAIN kept |->
                      <<AsDouble(kept[i].v[1]), AsDouble(kept[i].v[2])>>],
        color |-> IF color = <<>> THEN Txt("") ELSE color[1]]
chartSeries(doc, name) ==
    LET f == field(doc, name, "chart_series", {"array"})
    IN [i \in DOMAIN f |->
          LET objs == Typed(f[i].v, {"object"})
          IN [k \in DOMAIN objs |-> chartSeriesOf(objs[k])]]

pickerAction(doc, name, action) ==
    getString(doc, name, "action") = <<Txt(action)>>
isFilePicker(doc, name) == pickerAction(doc, name, "file_picker")
isFolderPicker(doc, name) == pickerAction(doc, name, "folder_picker")

\* Both texts must be there.  The setter writes decimals only, of which
\* std::stoll gives the number back: the text stands for it.
rangeSliderTimeSpan(doc, name) ==
    LET mn == getString(doc, name, "range_time_min_ns")
        mx == getString(doc, name, "range_time_max_ns")
    IN IF mn = <<>> \/ mx = <<>> THEN <<>> ELSE <<<<mn[1].s, mx[1].s>>>>
\* Either text is enough; the other one is then empty.
dateTimeRange(doc, name) ==
    LET mn == getString(doc, name, "datetime_min")
        mx == getString(doc, name, "datetime_max")
        orEmpty(o) == IF o = <<>> THEN Txt("") ELSE o[1]
    IN IF mn = <<>> /\ mx = <<>> THEN <<>> ELSE <<<<orEmpty(mn), orEmpty(mx)>>>>
isDropTarget(doc, name) == getBool(doc, name, "drop_target") = <<TRUE>>
dropTargets(doc) ==
    {n \in DOMAIN doc : doc[n].t = "object" /\ isDropTarget(doc, n)}

\* Members whose value is no string are skipped.  Keys stand for the row, or
\* row and column, the setters wrote as text; all of those parse.
members(doc, name, key) ==
    LET f == field(doc, name, key, {"object"})
    IN [i \in DOMAIN f |->
          [k \in {m \in DOMAIN f[i].v : f[i].v[m].t = "string"} |-> f[i].v[k].v]]
rowColors(doc, name) == members(doc, name, "row_colors")
cellTooltips(doc, name) == members(doc, name, "cell_tooltips")

\* A slip: the command looked up like a widget.
requestAcceptAsWidget(doc) == widget(doc, "__request_accept") # <<>>
requestAccept(doc) ==
    ValuesOf(Find(doc, "__request_accept"), {"bool"}) = <<TRUE>>
subDialogUi(doc) ==
    LET w == widget(doc, "__request_sub_dialog")
    IN IF w = <<>> THEN <<>> ELSE ValuesOf(Find(w[1].v, "ui"), {"string"})
requestClose(doc) == ValuesOf(Find(doc, "__request_close"), {"string"})
widgetNames(doc) == DOMAIN doc
hasWidget(doc, name) == widget(doc, name) # <<>>

\* The getters that read one field, by widget family.
lineEditView(doc, name) ==
    [text |-> getString(doc, name, "text"),
     placeholder |-> getString(doc, name, "placeholder"),
     readOnly |-> getBool(doc, name, "read_only")]
comboView(doc, name) ==
    [currentIndex |-> getInt(doc, name, "current_index"),
     items |-> getStringArray(doc, name, "items")]
buttonsAndSpinsView(doc, name) ==
    [checked |-> getBool(doc, name, "checked"),
     valueInt |-> getInt(doc, name, "value"),
     valueDouble |-> getDouble(doc, name, "value"),
     rangeMin |-> getInt(doc, name, "min"),
     rangeMax |-> getInt(doc, name, "max")]
listView(doc, name) ==
    [listItems |-> getStringArray(doc, name, "list_items"),
     selectedItems |-> getStringArray(doc, name, "selected_items"),
     tableHeaders |-> getStringArray(doc, name, "headers")]
textAndCodeView(doc, name) ==
    [chartZoomEnabled |-> getBool(doc, name, "chart_zoom_enabled"),
     plainText |-> getString(doc, name, "plain_text"),
     codeContent |-> getString(doc, name, "code_content"),
     codeLanguage |-> getString(doc, name, "code_language"),
     codeCursor |-> getInt(doc, name, "code_cursor"),
     codeCaretTracking |-> getBool(doc, name, "code_caret_tracking")]
labelAndButtonView(doc, name) ==
    [label |-> getString(doc, name, "label"),
     buttonText |-> getString(doc, name, "button_text"),
     buttonIconSvg |-> getString(doc, name, "button_icon_svg"),
     buttonIconName |-> getString(doc, name, "button_icon_name"),
     shortcut |-> getString(doc, name, "shortcut")]
pickerTitles(doc, name) ==
    [filePickerFilter |-> getString(doc, name, "filter"),
     filePickerTitle |-> getString(doc, name, "title")]
folderPickerTitle(doc, name) == getString(doc, name, "title")
rangeSliderView(doc, name) ==
    [rangeSliderMin |-> getInt(doc, name, "range_min"),
     rangeSliderMax |-> getInt(doc, name, "range_max"),
     rangeSliderLower |-> getInt(doc, name, "range_lower"),
     rangeSliderUpper |-> getInt(doc, name, "range_upper")]
dateAndStateView(doc, name) ==
    [dateRangeEarliest |-> getString(doc, name, "date_range_earliest"),
     dateRangeLatest |-> getString(doc, name, "date_range_latest"),
     fieldValid |-> getBool(doc, name, "valid"),
     fieldValidTooltip |-> getString(doc, name, "valid_tooltip"),
     okEnabled |-> getBool(doc, name, "ok_enabled"),
     tabIndex |-> getInt(doc, name, "tab_index")]
dateTime(doc, name) == getString(doc, name, "datetime")
genericView(doc, name) ==
    [enabled |-> getBool(doc, name, "enabled"),
     visible |-> getBool(doc, name, "visible")]

\* Everything the host can read of one widget.
View(doc, name) ==
    lineEditView(doc, name) @@ comboView(doc, name)
    @@ buttonsAndSpinsView(doc, name) @@ listView(doc, name)
    @@ textAndCodeView(doc, name) @@ labelAndButtonView(doc, name)
    @@ pickerTitles(doc, name) @@ rangeSliderView(doc, name)
    @@ dateAndStateView(doc, name) @@ genericView(doc, name)
    @@ [tableRows |-> tableRows(doc, name),
        selectedRows |-> selectedRows(doc, name),
        disabledRows |-> disabledRows(doc, name),
        visibleRows |-> visibleRows(doc, name),
        chartSeries |-> chartSeries(doc, name),
        isFilePicker |-> isFilePicker(doc, name),
        isFolderPicker |-> isFolderPicker(doc, name),
        folderPickerTitle |-> folderPickerTitle(doc, name),
        rangeSliderTimeSpan |-> rangeSliderTimeSpan(doc, name),
        dateTime |-> dateTime(doc, name),
        dateTimeRange |-> dateTimeRange(doc, name),
        isDropTarget |-> isDropTarget(doc, name),
        rowColors |-> rowColors(doc, name),
        cellTooltips |-> cellTooltips(doc, name)]

----------------------------------------------------------------------------
(* WidgetEventBuilder, WidgetEvent and the typed dispatch.                 *)

textChanged(s) == "text" :> JString(s)
indexChanged(i) == "current_index" :> JInt(i)
indexChangedWithText(i, s) ==
    ("current_index" :> JInt(i)) @@ ("current_text" :> JString(s))
toggled(b) == "checked" :> JBool(b)
valueChangedInt(i) == "value" :> JInt(i)
valueChangedDouble(d) == "value" :> JFloat(d)
selectionChanged(items) == "selected_items" :> Strings(items)
clicked == "clicked" :> JBool(TRUE)
fileSelected(path) == "file_selected" :> JString(path)
folderSelected(path) == "folder_selected" :> JString(path)
tabChanged(i) == "tab_index" :> JInt(i)
itemDoubleClicked(i) == "item_double_clicked_index" :> JInt(i)
headerClicked(i) == "header_section" :> JInt(i)
codeChanged(code, cursor) ==
    ("code_changed" :> JString(code))
        @@ (IF cursor >= 0 THEN "code_cursor" :> JInt(cursor) ELSE <<>>)
itemsDropped(labels) == "items_dropped" :> Strings(labels)
dateRangeChanged(from, to) ==
    ("date_from_iso" :> JString(from)) @@ ("date_to_iso" :> JString(to))
rangeChanged(lower, upper) ==
    ("range_lower" :> JInt(lower)) @@ ("range_upper" :> JInt(upper))
chartViewChanged(x0, x1, y0, y1) ==
    ("chart_x_min" :> JFloat(x0)) @@ ("chart_x_max" :> JFloat(x1))
        @@ ("chart_y_min" :> JFloat(y0)) @@ ("chart_y_max" :> JFloat(y1))

evString(ev, key) == ValuesOf(Find(ev, key), {"string"})
\* A slip: any number read as an integer.
evIntLoose(ev, key) == ValuesOf(Find(ev, key), {"int", "float"})
evInt(ev, key) == ValuesOf(Find(ev, key), {"int"})
evBool(ev, key) == ValuesOf(Find(ev, key), {"bool"})
evDouble(ev, key) ==
    LET f == Typed(Find(ev, key), {"int", "float"})
    IN [i \in DOMAIN f |-> AsDouble(f[i])]
evStrings(ev, key) ==
    LET f == Typed(Find(ev, key), {"array"})
    IN [i \in DOMAIN f |-> ValuesOf(f[i].v, {"string"})]
\* All the keys must be there with their types.
evAll(parts) ==
    IF \E i \in DOMAIN parts : parts[i] = <<>> THEN <<>>
    ELSE <<[i \in DOMAIN parts |-> parts[i][1]]>>
evDateRange(ev) ==
    evAll(<<evString(ev, "date_from_iso"), evString(ev, "date_to_iso")>>)
evRange(ev) == evAll(<<evInt(ev, "range_lower"), evInt(ev, "range_upper")>>)
evChartView(ev) ==
    evAll(<<evDouble(ev, "chart_x_min"), evDouble(ev, "chart_x_max"),
            evDouble(ev, "chart_y_min"), evDouble(ev, "chart_y_max")>>)
evClicked(ev) == IF evBool(ev, "clicked") = <<TRUE>> THEN <<TRUE>> ELSE <<>>

\* A handler with the argument it is called with.
Call(handler, arg) == [handler |-> handler, arg |-> arg]

\* DialogPluginTyped::onWidgetEvent: the candidates in the order it tries
\* them; the first that reads something is called, and none may be.
candidates(ev) ==
    <<<<"onChartViewChanged", evChartView(ev)>>,
      <<"onRangeChanged", evRange(ev)>>,
      <<"onDateRangeChanged", evDateRange(ev)>>,
      <<"onItemsDropped", evStrings(ev, "items_dropped")>>,
      <<"onCodeChangedWithCursor",
        LET code == evString(ev, "code_changed")
            cursor == evInt(ev, "code_cursor")
        IN [i \in DOMAIN code |->
              <<code[i], IF cursor = <<>> THEN -1 ELSE cursor[1]>>]>>,
      <<"onTextChanged", evString(ev, "text")>>,
      <<"onIndexChanged", evInt(ev, "current_index")>>,
      <<"onToggled", evBool(ev, "checked")>>,
      <<"onFileSelected", evString(ev, "file_selected")>>,
      <<"onFolderSelected", evString(ev, "folder_selected")>>,
      <<"onClicked", evClicked(ev)>>,
      <<"onSelectionChanged", evStrings(ev, "selected_items")>>,
      <<"onTabChanged", evInt(ev, "tab_index")>>,
      <<"onItemDoubleClicked", evInt(ev, "item_double_clicked_index")>>,
      <<"onHeaderClicked", evInt(ev, "header_section")>>,
      <<"onValueChanged(int)", evInt(ev, "value")>>,
      <<"onValueChanged(double)", evDouble(ev, "value")>>>>
onWidgetEvent(ev) ==
    LET c == candidates(ev)
        hit == SelectInSeq(c, LAMBDA x : x[2] # <<>>)
    IN IF hit = 0 THEN <<>> ELSE <<Call(c[hit][1], c[hit][2][1])>>
=============================================================================
