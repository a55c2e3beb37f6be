------------------------------ MODULE MCDialog ------------------------------
(* A dialog with one widget that is given every setter and its button box. *)
EXTENDS Dialog

T == Txt("a")
U == Txt("b")
On(w, fields, expect) ==
    [kind |-> "set", widget |-> w, fields |-> fields, expect |-> expect]
Do(fields, expect) == On("w", fields, expect)

TextReactions ==
    <<Do(setText(T), [text |-> <<T>>]),
      Do(setText(U), [text |-> <<U>>]),
      Do(setText(BadUtf8), [text |-> <<BadUtf8>>]),
      Do(setPlaceholder(T), [placeholder |-> <<T>>]),
      Do(setReadOnly(TRUE), [readOnly |-> <<TRUE>>]),
      Do(setPlainText(T), [plainText |-> <<T>>]),
      Do(setCodeContent(T), [codeContent |-> <<T>>]),
      Do(setCodeLanguage(U), [codeLanguage |-> <<U>>]),
      Do(setCodeCursor(1), [codeCursor |-> <<1>>]),
      Do(setCodeCaretTracking(TRUE), [codeCaretTracking |-> <<TRUE>>]),
      Do(setLabel(T), [label |-> <<T>>]),
      Do(setButtonText(U), [buttonText |-> <<U>>]),
      Do(setButtonIcon(T), [buttonIconSvg |-> <<T>>]),
      Do(setButtonIconNamed(U), [buttonIconName |-> <<U>>]),
      Do(setShortcut(T), [shortcut |-> <<T>>])>>
ValueReactions ==
    <<Do(setCurrentIndex(1), [currentIndex |-> <<1>>]),
      Do(setItems(<<T, U>>), [items |-> <<<<T, U>>>>]),
      Do(setChecked(TRUE), [checked |-> <<TRUE>>]),
      Do(setValueInt(1), [valueInt |-> <<1>>, valueDouble |-> <<<<2>>>>]),
      Do(setValueDouble(<<3>>), [valueInt |-> <<>>, valueDouble |-> <<<<3>>>>]),
      Do(setValueDouble(NaN), [valueInt |-> <<>>, valueDouble |-> <<>>]),
      Do(setRange(0, 1), [rangeMin |-> <<0>>, rangeMax |-> <<1>>]),
      Do(setTabIndex(1), [tabIndex |-> <<1>>]),
      Do(setEnabled(FALSE), [enabled |-> <<FALSE>>]),
      Do(setVisible(FALSE), [visible |-> <<FALSE>>]),
      Do(setDropTarget(TRUE), [isDropTarget |-> TRUE]),
      Do(setDropTarget(FALSE), [isDropTarget |-> FALSE]),
      Do(setFieldValid(FALSE, T),
         [fieldValid |-> <<FALSE>>, fieldValidTooltip |-> <<T>>]),
      On("buttonBox", setOkEnabled(FALSE), [okEnabled |-> <<FALSE>>]),
      On("buttonBox", setText(U), [text |-> <<U>>])>>
TableReactions ==
    <<Do(setListItems(<<T>>), [listItems |-> <<<<T>>>>]),
      Do(setSelectedItems(<<>>), [selectedItems |-> <<<<>>>>]),
      Do(setTableHeaders(<<T, U>>), [tableHeaders |-> <<<<T, U>>>>]),
      Do(setTableRows(<<<<T, U>>, <<>>>>), [tableRows |-> <<<<<<T, U>>, <<>>>>>>]),
      Do(setSelectedRows(<<0, 1>>), [selectedRows |-> <<<<0, 1>>>>]),
      Do(setDisabledRows(<<1>>), [disabledRows |-> <<<<1>>>>]),
      Do(setVisibleRows(<<>>), [visibleRows |-> <<<<>>>>]),
      Do(setVisibleRows(<<0>>), [visibleRows |-> <<<<0>>>>]),
      Do(clearVisibleRows, [visibleRows |-> <<>>]),
      [kind |-> "rowColor", widget |-> "w", row |-> 0, text |-> T],
      [kind |-> "rowColor", widget |-> "w", row |-> 10, text |-> U],
      [kind |-> "tooltip", widget |-> "w", row |-> 0, col |-> 1, text |-> T],
      [kind |-> "tooltip", widget |-> "w", row |-> 1, col |-> 0, text |-> U]>>
Points == <<<<<<2>>, <<3>>>>, <<<<4>>, NaN>>>>
OtherReactions ==
    <<Do(setChartSeries(<<[label |-> T, points |-> Points, color |-> Txt("")],
                          [label |-> U, points |-> <<>>, color |-> T]>>),
         [chartSeries |-> <<<<[label |-> T, points |-> <<<<<<2>>, <<3>>>>>>,
                               color |-> Txt("")],
                              [label |-> U, points |-> <<>>, color |-> T]>>>>]),
      Do(clearChart, [chartSeries |-> <<<<>>>>]),
      Do(setChartZoomEnabled(TRUE), [chartZoomEnabled |-> <<TRUE>>]),
      Do(setFilePicker(T, U, T),
         [buttonText |-> <<T>>, isFilePicker |-> TRUE, isFolderPicker |-> FALSE,
          filePickerFilter |-> <<U>>, filePickerTitle |-> <<T>>,
          folderPickerTitle |-> <<T>>]),
      Do(setFolderPicker(U, U),
         [buttonText |-> <<U>>, isFilePicker |-> FALSE, isFolderPicker |-> TRUE,
          filePickerTitle |-> <<U>>, folderPickerTitle |-> <<U>>]),
      Do(setDateTime(T), [dateTime |-> <<T>>]),
      Do(setDateTimeRange(T, Txt("")), [dateTimeRange |-> <<<<T, Txt("")>>>>]),
      Do(setRangeSliderBounds(0, 9),
         [rangeSliderMin |-> <<0>>, rangeSliderMax |-> <<9>>]),
      Do(setRangeSliderValues(2, 3),
         [rangeSliderLower |-> <<2>>, rangeSliderUpper |-> <<3>>]),
      Do(setRangeSliderTimeSpan(-1, 0), [rangeSliderTimeSpan |-> <<<<"-1", "0">>>>]),
      Do(setDateRangePlaceholder(T, U),
         [dateRangeEarliest |-> <<T>>, dateRangeLatest |-> <<U>>]),
      [kind |-> "accept"],
      [kind |-> "close", text |-> T],
      [kind |-> "subDialog", text |-> U],
      [kind |-> "clear"]>>
MCReactions ==
    TextReactions \o ValueReactions \o TableReactions \o OtherReactions

Ev(fields, handler, arg) == [fields |-> fields, expect |-> <<Call(handler, arg)>>]
NoCall(fields) == [fields |-> fields, expect |-> <<>>]
MCEvents ==
    <<Ev(textChanged(T), "onTextChanged", T),
      Ev(textChanged(BadUtf8), "onTextChanged", BadUtf8),
      Ev(indexChanged(1), "onIndexChanged", 1),
      Ev(indexChangedWithText(1, T), "onIndexChanged", 1),
      Ev(toggled(FALSE), "onToggled", FALSE),
      Ev(valueChangedInt(0), "onValueChanged(int)", 0),
      Ev(valueChangedDouble(<<2>>), "onValueChanged(double)", <<2>>),
      NoCall(valueChangedDouble(NaN)),
      Ev(selectionChanged(<<>>), "onSelectionChanged", <<>>),
      Ev(clicked, "onClicked", TRUE),
      Ev(fileSelected(T), "onFileSelected", T),
      Ev(folderSelected(T), "onFolderSelected", T),
      Ev(tabChanged(1), "onTabChanged", 1),
      Ev(itemDoubleClicked(0), "onItemDoubleClicked", 0),
      Ev(headerClicked(0), "onHeaderClicked", 0),
      Ev(codeChanged(T, 4), "onCodeChangedWithCursor", <<T, 4>>),
      Ev(codeChanged(U, -1), "onCodeChangedWithCursor", <<U, -1>>),
      Ev(itemsDropped(<<T, U>>), "onItemsDropped", <<T, U>>),
      Ev(dateRangeChanged(T, Txt("")), "onDateRangeChanged", <<T, Txt("")>>),
      Ev(rangeChanged(1, 2), "onRangeChanged", <<1, 2>>),
      Ev(chartViewChanged(<<0>>, <<2>>, <<0>>, <<3>>), "onChartViewChanged",
         <<<<0>>, <<2>>, <<0>>, <<3>>>>),
      NoCall(chartViewChanged(NaN, <<2>>, <<0>>, <<3>>))>>
=============================================================================
