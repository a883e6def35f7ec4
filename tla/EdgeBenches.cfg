SPECIFICATION Benches
PROPERTIES LinksServed DeckAnswers DeskTold 
CHECK_DEADLOCK FALSE
